---------------------------- MODULE Spec2Model ----------------------------
(***************************************************************************)
(* Model of the counsel session manager (app/services/legal_counsel.py),   *)
(* of its endpoint (app/api/counsel.py) and of the ETL pipeline            *)
(* (src/bulk_ingest.py, src/util/io.py).                                   *)
(*                                                                         *)
(* Representation.                                                         *)
(*  - A Python str is a sequence of atoms.  An atom is a TLA+ string that  *)
(*    is either the whitespace atom " " or a chunk that neither starts nor *)
(*    ends with whitespace; str.strip() removes the leading and trailing   *)
(*    whitespace atoms.                                                    *)
(*  - A decoded JSON value is a record [t, v]: t is its Python type and v  *)
(*    its value.                                                           *)
(*  - A Python list object lives in the heap and is named by its index, so *)
(*    that two names of one list (aliasing) and a copy of a list differ.   *)
(***************************************************************************)
EXTENDS Integers, Sequences, FiniteSets, TLC

\* ------------------------------------------------------------------------
\* Bounds of the model
\* ------------------------------------------------------------------------

\* number of create_session / ask_question calls issued in one behaviour
MaxCalls == 3

\* number of calls issued in one behaviour of the wide-output specification
MaxParseCalls == 2

\* number of sessions that create_session may create; session id
\* MaxSessions + 1 is asked about but never created
MaxSessions == 2

\* Files in the processing directory at the start of a run
MaxFiles == 2

\* Runs of the pipeline, one after another
MaxRuns == 2

\* Files in the processing directory of the runs that may die
MaxCommitFiles == 12

\* ------------------------------------------------------------------------
\* Python strings
\* ------------------------------------------------------------------------

WS == " "

RECURSIVE LStrip(_)
LStrip(s) == IF s # <<>> /\ Head(s) = WS THEN LStrip(Tail(s)) ELSE s

RECURSIVE RStrip(_)
RStrip(s) ==
  IF s # <<>> /\ s[Len(s)] = WS THEN RStrip(SubSeq(s, 1, Len(s) - 1)) ELSE s

\* str.strip()
Strip(s) == RStrip(LStrip(s))

\* ------------------------------------------------------------------------
\* Decoded JSON values and the Python operations the service applies to them
\* ------------------------------------------------------------------------

JNull == [t |-> "null", v |-> 0]
JNum(n) == [t |-> "num", v |-> n]
JStr(s) == [t |-> "str", v |-> s]
JList(items) == [t |-> "list", v |-> items]
JObj(fields) == [t |-> "obj", v |-> fields]

\* an object without fields: json.loads("{}")
NoFields == [k \in {} |-> JNull]

\* bool(x)
Truthy(x) ==
  CASE x.t = "null" -> FALSE
    [] x.t = "num" -> x.v # 0
    [] x.t = "str" -> x.v # <<>>
    [] x.t = "list" -> x.v # <<>>
    [] x.t = "obj" -> DOMAIN x.v # {}

\* x or d
Or(x, d) == IF Truthy(x) THEN x ELSE d

\* dict.get(key) on a decoded object: None when the key is absent
Get(obj, key) == IF key \in DOMAIN obj.v THEN obj.v[key] ELSE JNull

\* str(x); the repr of a container is one chunk
Str(x) ==
  CASE x.t = "str" -> x.v
    [] x.t = "num" -> <<ToString(x.v)>>
    [] x.t = "null" -> <<"None">>
    [] x.t = "list" -> <<"[..]">>
    [] x.t = "obj" -> <<"{..}">>


RECURSIVE SetToSeq(_)
SetToSeq(S) ==
  IF S = {} THEN <<>>
  ELSE LET x == CHOOSE y \in S : TRUE IN <<x>> \o SetToSeq(S \ {x})

\* Whether Python can iterate over x (enumerate(x), ", ".join(x))
Iterable(x) == x.t \in {"list", "str", "obj"}

\* The items Python's iteration over x yields: the elements of a list, the
\* characters of a str (here its atoms), the keys of a dict
IterItems(x) ==
  CASE x.t = "list" -> x.v
    [] x.t = "str" -> [i \in 1..Len(x.v) |-> JStr(<<x.v[i]>>)]
    [] x.t = "obj" -> LET ks == SetToSeq(DOMAIN x.v)
                      IN [i \in 1..Len(ks) |-> JStr(<<ks[i]>>)]
    [] OTHER -> <<>>

\* ------------------------------------------------------------------------
\* The text of a model reply and json.loads
\* ------------------------------------------------------------------------

\* A reply text that is no JSON document
RawText(s) == [kind |-> "text", text |-> s, val |-> JNull]

\* A reply text that is the JSON document of the value x
JsonText(x) == [kind |-> "json", text |-> <<"<json>">>, val |-> x]

\* json.loads(content): ok = FALSE stands for json.JSONDecodeError
JsonLoads(content) ==
  IF content.kind = "json" THEN [ok |-> TRUE, val |-> content.val]
  ELSE [ok |-> FALSE, val |-> JNull]

\* ------------------------------------------------------------------------
\* legal_counsel.py: constants
\* ------------------------------------------------------------------------

DEFAULT_PANEL ==
  << [judge |-> <<"Judge Morrison">>,
      specialty |-> <<"Constitutional & Appellate Law">>],
     [judge |-> <<"Judge Chen">>,
      specialty |-> <<"Corporate & Contract Law">>],
     [judge |-> <<"Judge Rodriguez">>,
      specialty |-> <<"Civil Rights & Criminal Procedure">>] >>

SYSTEM_PROMPT == <<"You are the VERDICT Judicial Panel ...">>

NoAnalysis == <<"No analysis was generated.">>

NoOpinion ==
  <<"I could not generate an opinion with the provided information.">>

\* ------------------------------------------------------------------------
\* LegalCounselService._parse_response
\* ------------------------------------------------------------------------

\* a fallback payload that drops the raw text
FallbackNoText(content) ==
  JObj([panel_summary |-> JStr(NoAnalysis),
        judges |-> JList(<<>>),
        citations |-> JList(<<>>)])

\* the payload built in the except branch of json.loads
FallbackPayload(content) ==
  JObj([panel_summary |->
          JStr(IF Strip(content.text) # <<>> THEN Strip(content.text)
               ELSE NoAnalysis),
        judges |-> JList(<<>>),
        citations |-> JList(<<>>)])

\* a loop body without the continue branch
NormalizeJudgeKeepAll(judge_info, idx) ==
  [skip |-> FALSE,
   entry |-> [judge |-> <<"Panel Judge " \o ToString(idx + 1)>>,
              specialty |-> <<>>,
              opinion |-> Strip(Str(Or(Get(judge_info, "opinion"), JStr(<<>>))))]]

\* One pass of the loop body for the entry at 0-based position idx:
\* skip = the continue branch, entry = the appended dict
NormalizeJudge(judge_info, idx) ==
  LET name0 == Strip(Str(Or(Get(judge_info, "judge"), JStr(<<>>))))
      spec0 == Strip(Str(Or(Get(judge_info, "specialty"), JStr(<<>>))))
      opinion == Strip(Str(Or(Get(judge_info, "opinion"), JStr(<<>>))))
      name1 == IF name0 = <<>> /\ idx < Len(DEFAULT_PANEL)
               THEN DEFAULT_PANEL[idx + 1].judge ELSE name0
      spec1 == IF spec0 = <<>> /\ idx < Len(DEFAULT_PANEL)
               THEN DEFAULT_PANEL[idx + 1].specialty ELSE spec0
  IN [skip |-> opinion = <<>>,
      entry |-> [judge |-> IF name1 # <<>> THEN name1
                           ELSE <<"Panel Judge " \o ToString(idx + 1)>>,
                 specialty |-> spec1,
                 opinion |-> opinion]]

\* The for loop over enumerate(judges_payload), from 0-based position idx on,
\* with the list normalized so far.  judge_info.get raises AttributeError on
\* an item that is no dict.
RECURSIVE NormalizeJudges(_, _, _)
NormalizeJudges(items, idx, normalized) ==
  IF idx >= Len(items) THEN [err |-> "none", judges |-> normalized]
  ELSE IF items[idx + 1].t # "obj"
       THEN [err |-> "AttributeError", judges |-> <<>>]
       ELSE LET r == NormalizeJudge(items[idx + 1], idx)
            IN NormalizeJudges(items, idx + 1,
                 IF r.skip THEN normalized ELSE Append(normalized, r.entry))

DefaultJudges(panel_summary) ==
  [i \in 1..Len(DEFAULT_PANEL) |->
     [judge |-> DEFAULT_PANEL[i].judge,
      specialty |-> DEFAULT_PANEL[i].specialty,
      opinion |-> panel_summary]]

Raised(e) ==
  [err |-> e, panel_summary |-> <<>>, judges |-> <<>>, citations |-> JNull]

\* _parse_response(content): err names the exception that leaves the
\* function, "none" when it returns
ParseResponse(content) ==
  LET loaded == JsonLoads(content)
      payload == IF loaded.ok THEN loaded.val ELSE FallbackPayload(content)
  IN IF payload.t # "obj" THEN Raised("AttributeError")
     ELSE
       LET ps0 == Strip(Str(Or(Get(payload, "panel_summary"), JStr(<<>>))))
           panel_summary == IF ps0 = <<>> THEN NoOpinion ELSE ps0
           judges_payload == Or(Get(payload, "judges"), JList(<<>>))
           citations == Or(Get(payload, "citations"), JList(<<>>))
       IN IF ~Iterable(judges_payload) THEN Raised("TypeError")
          ELSE
            LET n == NormalizeJudges(IterItems(judges_payload), 0, <<>>)
            IN IF n.err # "none" THEN Raised(n.err)
               ELSE [err |-> "none",
                     panel_summary |-> panel_summary,
                     judges |-> IF n.judges = <<>>
                                THEN DefaultJudges(panel_summary)
                                ELSE n.judges,
                     citations |-> citations]

\* ------------------------------------------------------------------------
\* LegalCounselService._history_snippet
\* ------------------------------------------------------------------------

\* A line of text: its kind and the strings it is formatted from
Line(k, parts) == [k |-> k, parts |-> parts]

JudgeLine(judge) ==
  IF Strip(judge.specialty) # <<>>
  THEN Line("judge (specialty): opinion",
            <<judge.judge, Strip(judge.specialty), judge.opinion>>)
  ELSE Line("judge: opinion", <<judge.judge, judge.opinion>>)

\* ", ".join(citations) raises TypeError unless citations is an iterable of
\* str
Joinable(citations) ==
  /\ Iterable(citations)
  /\ \A i \in 1..Len(IterItems(citations)) : IterItems(citations)[i].t = "str"

\* _history_snippet(parsed): the lines that "\n\n".join(lines) joins
HistorySnippet(parsed) ==
  LET lines == <<Line("summary", <<parsed.panel_summary>>)>>
                 \o [i \in 1..Len(parsed.judges) |-> JudgeLine(parsed.judges[i])]
      citations == Or(parsed.citations, JList(<<>>))
  IN IF ~Truthy(citations) THEN [err |-> "none", lines |-> lines]
     ELSE IF ~Joinable(citations) THEN [err |-> "TypeError", lines |-> <<>>]
     ELSE [err |-> "none",
           lines |-> Append(lines,
                       Line("Citations",
                            [i \in 1..Len(IterItems(citations)) |->
                               IterItems(citations)[i].v]))]

\* ------------------------------------------------------------------------
\* LegalCounselService._build_prompt
\* ------------------------------------------------------------------------

\* An Optional[str] argument is a string; None and "" are both <<>> (the
\* code tests them by truth value only)
BuildPrompt(case_title, facts, question, jurisdiction, case_type) ==
  << Line("Case Title",
          <<IF Strip(case_title) # <<>> THEN Strip(case_title)
            ELSE <<"General Consultation">> >>),
     Line("Question", <<Strip(question)>>) >>
  \o (IF jurisdiction # <<>>
      THEN <<Line("Jurisdiction", <<Strip(jurisdiction)>>)>> ELSE <<>>)
  \o (IF case_type # <<>>
      THEN <<Line("Case Type", <<Strip(case_type)>>)>> ELSE <<>>)
  \o (IF facts # <<>> THEN <<Line("Facts", <<Strip(facts)>>)>> ELSE <<>>)

\* ------------------------------------------------------------------------
\* Exceptions and the endpoint's mapping (app/api/counsel.py)
\* ------------------------------------------------------------------------

\* the base class of each exception class
BaseOf(cls) ==
  CASE cls = "CounselConfigurationError" -> "CounselServiceError"
    [] cls = "CounselSessionNotFound" -> "CounselServiceError"
    [] OTHER -> "Exception"

\* isinstance(exception of class cls, handler): what an except clause tests
RECURSIVE IsInstance(_, _)
IsInstance(cls, handler) ==
  \/ cls = handler
  \/ cls # "Exception" /\ IsInstance(BaseOf(cls), handler)

\* AskCounselResponse(**result): citations must validate as List[str]
ValidResponse(result) ==
  /\ result.citations.t = "list"
  /\ \A i \in 1..Len(result.citations.v) : result.citations.v[i].t = "str"

\* the handler of the base class placed before those of its subclasses
AskCounselStatusBaseFirst(outcome, result) ==
  IF outcome = "returned"
  THEN IF ValidResponse(result) THEN 200 ELSE 500
  ELSE IF IsInstance(outcome, "CounselServiceError") THEN 502
  ELSE IF IsInstance(outcome, "CounselSessionNotFound") THEN 404
  ELSE IF IsInstance(outcome, "CounselConfigurationError") THEN 503
  ELSE 500

\* ask_counsel: the status class the endpoint answers with when ask_question
\* ends with outcome ("returned" or the class of the exception it raised)
AskCounselStatus(outcome, result) ==
  IF outcome = "returned"
  THEN IF ValidResponse(result) THEN 200 ELSE 500
  ELSE IF IsInstance(outcome, "CounselSessionNotFound") THEN 404
  ELSE IF IsInstance(outcome, "CounselConfigurationError") THEN 503
  ELSE IF IsInstance(outcome, "CounselServiceError") THEN 502
  ELSE 500

\* ------------------------------------------------------------------------
\* State
\* ------------------------------------------------------------------------

VARIABLES
  sessions,   \* self._sessions: session id -> its messages list (heap index)
  heap,       \* the list objects: index -> sequence of messages
  lock,       \* self._lock: 0 when free, else the call that holds it
  calls,      \* the calls issued so far, in the order they were issued
  sdk,        \* AsyncOpenAI is not None
  apiKey,     \* bool(settings.OPENAI_API_KEY)
  client      \* self._client is not None

\* The state of the ETL pipeline (src/bulk_ingest.py)
VARIABLES
  rawDir,     \* RAW_DIR: the artifacts, in the order os.listdir gives them
  procDir,    \* PROC_DIR: the files, in the order glob gives them
  table,      \* the rows of table cases as the connection sees them
  durable,    \* the rows of table cases that are committed
  run,        \* the run of main() in progress: its position and its locals
  reports     \* what the runs so far ended with

ivars == <<rawDir, procDir, table, durable, run, reports>>

\* The state of the retry helper (src/util/backoff.py)
VARIABLES
  naps,       \* what the calls of sleep_backoff made so far ended with
  retry       \* the call of retry_with_backoff: its position and its locals

bvars == <<naps, retry>>

vars == <<sessions, heap, lock, calls, sdk, apiKey, client,
          rawDir, procDir, table, durable, run, reports, naps, retry>>

\* no run of main() in progress
IdleRun ==
  [pc |-> "idle", a |-> 0, extracted |-> 0, files |-> <<>>, i |-> 0, j |-> 0,
   inserted |-> 0, skipped |-> 0, errors |-> 0]

\* no call of retry_with_backoff in progress
IdleRetry ==
  [pc |-> "idle", max_retries |-> 0, attempt |-> 0, invoked |-> 0,
   slept |-> 0, nap |-> <<>>, last_exception |-> <<>>, outcome |-> "none",
   value |-> <<>>]

\* the retry helper is not used
NoBackoff == naps = <<>> /\ retry = IdleRetry

\* the pipeline is not run: empty directories, empty database
NoPipeline ==
  /\ rawDir = <<>>
  /\ procDir = <<>>
  /\ table = <<>>
  /\ durable = <<>>
  /\ run = IdleRun
  /\ reports = <<>>

\* A transcript entry {"role", "content"}; turn is history: the call that
\* built the entry (0 for the seed)
Msg(role, content, turn) == [role |-> role, content |-> content, turn |-> turn]

SystemMsg == Msg("system", <<Line("system", <<SYSTEM_PROMPT>>)>>, 0)

NoResult ==
  [session_id |-> 0, answer |-> <<>>, judges |-> <<>>, citations |-> JNull]

NoInput ==
  [case_title |-> <<>>, facts |-> <<>>, question |-> <<>>,
   jurisdiction |-> <<>>, case_type |-> <<>>]

NoReply == [kind |-> "none", content |-> RawText(<<>>)]

\* A call of create_session or ask_question as issued
NewCall(op, sid, input, pc, list) ==
  [op |-> op, pc |-> pc, sid |-> sid, input |-> input,
   list |-> list,            \* the list the call built (heap index, 0 = none):
                             \* session.messages or conversation
   asked |-> FALSE,          \* client.chat.completions.create was invoked
   reply |-> NoReply,        \* what the model call ended with
   pending |-> <<>>,         \* the arguments of _append_messages
   outcome |-> "running",    \* "returned" or the class of the exception
   result |-> NoResult,      \* the dict ask_question returns
   status |-> 0]             \* the endpoint's status class

SessionIds == 1..(MaxSessions + 1)

Calls == 1..Len(calls)

\* The stored transcript of session sid
Transcript(sid) == heap[sessions[sid]]

Init ==
  /\ sessions = [s \in {} |-> 0]
  /\ heap = <<>>
  /\ lock = 0
  /\ calls = <<>>
  /\ sdk \in BOOLEAN
  /\ apiKey \in BOOLEAN
  /\ client = FALSE
  /\ NoPipeline
  /\ NoBackoff

\* ------------------------------------------------------------------------
\* Inputs
\* ------------------------------------------------------------------------

\* arguments of ask_question: the required ones only, and all of them
BareInput ==
  [case_title |-> <<>>, facts |-> <<>>, question |-> <<"q1">>,
   jurisdiction |-> <<>>, case_type |-> <<>>]

FullInput ==
  [case_title |-> <<"T", WS>>, facts |-> <<"f">>, question |-> <<WS, "q2">>,
   jurisdiction |-> <<"NY">>, case_type |-> <<"civil">>]

AskInputs == {BareInput, FullInput}

GoodJudge ==
  JObj([judge |-> JStr(<<"J">>), specialty |-> JStr(<<"S">>),
        opinion |-> JStr(<<"o">>)])

GoodPayload ==
  JObj([panel_summary |-> JStr(<<"sum">>), judges |-> JList(<<GoodJudge>>),
        citations |-> JList(<<JStr(<<"cite">>)>>)])

\* reply texts of the specification of concurrent calls: a JSON object, on
\* which ask_question returns, and a JSON document that is no object, on
\* which it raises
ConcOutputs == { JsonText(GoodPayload), JsonText(JList(<<>>)) }

\* strings: empty, blank, plain, padded
SomeStrings == { <<>>, <<WS>>, <<"x">>, <<WS, "x", WS>> }

\* reply texts that are no JSON document
RawOutputs == { RawText(s) : s \in SomeStrings \cup {<<"not json at all">>} }

\* JSON documents that are no object
NonObjectOutputs ==
  { JsonText(x) : x \in { JNull, JNum(0), JNum(5), JStr(<<"x">>), JList(<<>>),
                          JList(<<JNum(1)>>) } }

\* values of the wrong type for a field
WrongTyped == { JNull, JNum(5), JList(<<JNum(1)>>), JObj([k |-> JNum(1)]) }

\* entries of a judges list: complete, without a name, without a specialty,
\* with a blank or missing opinion, with a number as opinion, not an object
JudgeItems ==
  { GoodJudge,
    JObj([specialty |-> JStr(<<"S">>), opinion |-> JStr(<<WS, "o2">>)]),
    JObj([judge |-> JStr(<<"J3">>), specialty |-> JStr(<<WS>>),
          opinion |-> JStr(<<"o3">>)]),
    JObj([judge |-> JStr(<<"J4">>), opinion |-> JStr(<<WS>>)]),
    JObj([judge |-> JStr(<<"J5">>), specialty |-> JStr(<<"S">>)]),
    JObj([opinion |-> JNum(5)]),
    JStr(<<"x">>) }

BlankJudge == JObj([opinion |-> JStr(<<>>)])

NamelessJudge == JObj([opinion |-> JStr(<<"o">>)])

\* judges lists: of at most 1 entry, of 2 entries behind a kept or a skipped
\* first entry, and of 4 entries whose last entry is beyond the default panel
JudgeLists ==
  { JList(<<>>) }
  \cup { JList(<<a>>) : a \in JudgeItems }
  \cup { JList(<<a, b>>) : a \in {GoodJudge, BlankJudge}, b \in JudgeItems }
  \cup { JList(<<BlankJudge, BlankJudge, BlankJudge, a>>) :
           a \in {NamelessJudge, BlankJudge} }
  \cup { JList(<<NamelessJudge, GoodJudge, BlankJudge, NamelessJudge>>) }

WithField(obj, key, x) ==
  JObj([k \in DOMAIN obj.v \cup {key} |-> IF k = key THEN x ELSE obj.v[k]])

WithoutField(obj, key) == JObj([k \in DOMAIN obj.v \ {key} |-> obj.v[k]])

\* JSON objects: the complete payload with one field varied, without it, and
\* the object without fields
ObjectOutputs ==
  { JsonText(JObj(NoFields)) }
  \cup { JsonText(WithoutField(GoodPayload, k)) :
           k \in {"panel_summary", "judges", "citations"} }
  \cup { JsonText(WithField(GoodPayload, "panel_summary", x)) :
           x \in {JStr(s) : s \in SomeStrings} \cup WrongTyped }
  \cup { JsonText(WithField(GoodPayload, "judges", x)) :
           x \in JudgeLists \cup WrongTyped \cup {JStr(<<"x">>)} }
  \cup { JsonText(WithField(GoodPayload, "citations", x)) :
           x \in { JList(<<>>), JList(<<JStr(<<"c1">>), JStr(<<"c2">>)>>),
                   JStr(<<"c">>) } \cup WrongTyped }
  \cup { JsonText(WithField(JObj(NoFields), "judges", x)) :
           x \in {JList(<<>>), JList(<<GoodJudge>>)} }

\* reply texts of the specification of calls with any model output
AllOutputs == RawOutputs \cup NonObjectOutputs \cup ObjectOutputs

\* ------------------------------------------------------------------------
\* The list objects
\* ------------------------------------------------------------------------

\* two names of one list instead of a copy
ListAlias(h, ref) == [heap |-> h, ref |-> ref]

\* list(xs): a new list object with the elements of list ref
ListCopy(h, ref) == [heap |-> Append(h, h[ref]), ref |-> Len(h) + 1]

\* assignment of the new entries instead of an extension
ListAssign(h, ref, msgs) == [h EXCEPT ![ref] = msgs]

\* xs.extend(msgs) / xs.append(msg)
ListExtend(h, ref, msgs) == [h EXCEPT ![ref] = @ \o msgs]

\* one default list shared by every session
SharedMessages(h) ==
  IF h = <<>> THEN [heap |-> << <<>> >>, ref |-> 1] ELSE [heap |-> h, ref |-> 1]

\* CounselSession(session_id=...): messages is a new empty list
\* (field(default_factory=list))
NewMessages(h) == [heap |-> Append(h, <<>>), ref |-> Len(h) + 1]

\* the first session of the registry, whatever the key
SessionsGetAny(sid) ==
  IF DOMAIN sessions = {} THEN 0
  ELSE sessions[CHOOSE s \in DOMAIN sessions : \A r \in DOMAIN sessions : s <= r]

\* self._sessions.get(session_id): the session's messages list, 0 for None
SessionsGet(sid) == IF sid \in DOMAIN sessions THEN sessions[sid] ELSE 0

\* the configuration checked before the session
ConfigFirst(found, configured) ==
  IF ~configured THEN "CounselConfigurationError"
  ELSE IF ~found THEN "CounselSessionNotFound"
  ELSE "ok"

\* The order of ask_question's first two steps: _get_session_copy (line 137)
\* raises before _ensure_client (line 138) is reached
AskEntry(found, configured) ==
  IF ~found THEN "CounselSessionNotFound"
  ELSE IF ~configured THEN "CounselConfigurationError"
  ELSE "ok"

\* _ensure_client returns a client: the SDK is installed and the key is set
Configured == sdk /\ apiKey

\* an id counted from the sessions stored so far: two calls in flight get
\* the same id
StoredCountId == Cardinality(DOMAIN sessions) + 1

\* str(uuid.uuid4()): an id no earlier call was given
NewSessionId ==
  Cardinality({c \in Calls : calls[c].op = "create"}) + 1

\* ------------------------------------------------------------------------
\* Actions
\* ------------------------------------------------------------------------

\* the call ends: it returns or raises
Finish(c, outcome, result) ==
  [calls EXCEPT ![c].pc = "done",
                ![c].outcome = outcome,
                ![c].result = result,
                ![c].status = IF calls[c].op = "ask"
                              THEN AskCounselStatus(outcome, result)
                              ELSE 201]

\* create_session is called: lines 94-96, up to the lock
IssueCreate(limit) ==
  /\ Len(calls) < limit
  /\ NewSessionId <= MaxSessions
  /\ LET new == NewMessages(heap)
     IN /\ heap' = ListExtend(new.heap, new.ref, <<SystemMsg>>)
        /\ calls' = Append(calls, NewCall("create", NewSessionId, NoInput,
                                          "create_lock", new.ref))
  /\ UNCHANGED <<sessions, lock, sdk, apiKey, client>>

\* ask_question is called: up to the lock of _get_session_copy
IssueAsk(limit, inputs) ==
  /\ Len(calls) < limit
  /\ \E sid \in SessionIds, input \in inputs :
       calls' = Append(calls, NewCall("ask", sid, input, "copy_lock", 0))
  /\ UNCHANGED <<sessions, heap, lock, sdk, apiKey, client>>

\* async with self._lock: the call enters the block
Acquire(c) ==
  /\ lock = 0
  /\ calls[c].pc \in {"create_lock", "copy_lock", "append_lock"}
  /\ lock' = c
  /\ calls' = [calls EXCEPT ![c].pc =
                 CASE @ = "create_lock" -> "create_locked"
                   [] @ = "copy_lock" -> "copy_locked"
                   [] @ = "append_lock" -> "append_locked"]
  /\ UNCHANGED <<sessions, heap, sdk, apiKey, client>>

\* create_session, line 98 and the return
CreateBody(c) ==
  /\ calls[c].pc = "create_locked"
  /\ sessions' = [s \in DOMAIN sessions \cup {calls[c].sid} |->
                    IF s = calls[c].sid THEN calls[c].list ELSE sessions[s]]
  /\ lock' = 0
  /\ calls' = Finish(c, "returned", NoResult)
  /\ UNCHANGED <<heap, sdk, apiKey, client>>

\* the user entry ask_question builds (lines 140-141 and 166)
UserMsg(c) ==
  Msg("user",
      BuildPrompt(calls[c].input.case_title, calls[c].input.facts,
                  calls[c].input.question, calls[c].input.jurisdiction,
                  calls[c].input.case_type),
      c)

\* ask_question from the body of _get_session_copy to the model call
\* (lines 104-109 and 138-144)
AskBegin(c) ==
  /\ calls[c].pc = "copy_locked"
  /\ lock' = 0
  /\ UNCHANGED <<sessions, sdk, apiKey>>
  /\ LET session == SessionsGet(calls[c].sid)
         entry == AskEntry(session # 0, Configured)
         copy == ListCopy(heap, session)
     IN IF session = 0
        THEN /\ calls' = Finish(c, entry, NoResult)
             /\ UNCHANGED <<heap, client>>
        ELSE IF entry # "ok"
        THEN /\ heap' = copy.heap
             /\ calls' = [Finish(c, entry, NoResult) EXCEPT ![c].list = copy.ref]
             /\ UNCHANGED client
        ELSE /\ client' = TRUE
             /\ heap' = ListExtend(copy.heap, copy.ref, <<UserMsg(c)>>)
             /\ calls' = [calls EXCEPT ![c].pc = "model",
                                       ![c].list = copy.ref,
                                       ![c].asked = TRUE]

\* the model call's exception left to propagate
ModelCallLeak(kind) ==
  CASE kind = "raise OpenAIError" -> "OpenAIError"
    [] kind = "raise Exception" -> "Exception"
    [] kind = "no choices" -> "IndexError"
    [] OTHER -> "ok"

\* What ask_question makes of the end of the model call (lines 143-159):
\* except OpenAIError and except Exception both raise CounselServiceError,
\* and so does a response without choices
ModelCallOutcome(kind) ==
  CASE kind = "raise OpenAIError" -> "CounselServiceError"
    [] kind = "raise Exception" -> "CounselServiceError"
    [] kind = "no choices" -> "CounselServiceError"
    [] OTHER -> "ok"

\* what client.chat.completions.create can end with
Replies(outs) ==
  { [kind |-> "raise OpenAIError", content |-> RawText(<<>>)],
    [kind |-> "raise Exception", content |-> RawText(<<>>)],
    [kind |-> "no choices", content |-> RawText(<<>>)] }
  \cup { [kind |-> "content", content |-> o] : o \in outs }

\* ask_question from the end of the model call to the lock of
\* _append_messages (lines 151-167)
AskReply(c, outs) ==
  /\ calls[c].pc = "model"
  /\ \E r \in Replies(outs) :
       LET parsed == ParseResponse(r.content)
           snippet == HistorySnippet(parsed)
           done(e) == [Finish(c, e, NoResult) EXCEPT ![c].reply = r]
       IN calls' =
            IF ModelCallOutcome(r.kind) # "ok"
            THEN done(ModelCallOutcome(r.kind))
            ELSE IF parsed.err # "none" THEN done(parsed.err)
            ELSE IF snippet.err # "none" THEN done(snippet.err)
            ELSE [calls EXCEPT
                    ![c].pc = "append_lock",
                    ![c].reply = r,
                    ![c].pending = <<UserMsg(c), Msg("assistant", snippet.lines, c)>>,
                    ![c].result = [session_id |-> calls[c].sid,
                                   answer |-> parsed.panel_summary,
                                   judges |-> parsed.judges,
                                   citations |-> parsed.citations]]
  /\ UNCHANGED <<sessions, heap, lock, sdk, apiKey, client>>

\* the body of _append_messages and the return of ask_question
\* (lines 113-116 and 170-175)
AskAppend(c) ==
  /\ calls[c].pc = "append_locked"
  /\ lock' = 0
  /\ UNCHANGED <<sessions, sdk, apiKey, client>>
  /\ LET session == SessionsGet(calls[c].sid)
     IN IF session = 0
        THEN /\ calls' = Finish(c, "CounselSessionNotFound", NoResult)
             /\ UNCHANGED heap
        ELSE /\ heap' = ListExtend(heap, session, calls[c].pending)
             /\ calls' = Finish(c, "returned", calls[c].result)

Next ==
  \/ IssueCreate(MaxCalls) /\ UNCHANGED <<ivars, bvars>>
  \/ IssueAsk(MaxCalls, AskInputs) /\ UNCHANGED <<ivars, bvars>>
  \/ \E c \in Calls : Acquire(c) /\ UNCHANGED <<ivars, bvars>>
  \/ \E c \in Calls : CreateBody(c) /\ UNCHANGED <<ivars, bvars>>
  \/ \E c \in Calls : AskBegin(c) /\ UNCHANGED <<ivars, bvars>>
  \/ \E c \in Calls : AskReply(c, ConcOutputs) /\ UNCHANGED <<ivars, bvars>>
  \/ \E c \in Calls : AskAppend(c) /\ UNCHANGED <<ivars, bvars>>

Spec == Init /\ [][Next]_vars

\* The same calls, fewer of them, with any model output
NextParse ==
  \/ IssueCreate(MaxParseCalls) /\ UNCHANGED <<ivars, bvars>>
  \/ IssueAsk(MaxParseCalls, {FullInput}) /\ UNCHANGED <<ivars, bvars>>
  \/ \E c \in Calls : Acquire(c) /\ UNCHANGED <<ivars, bvars>>
  \/ \E c \in Calls : CreateBody(c) /\ UNCHANGED <<ivars, bvars>>
  \/ \E c \in Calls : AskBegin(c) /\ UNCHANGED <<ivars, bvars>>
  \/ \E c \in Calls : AskReply(c, AllOutputs) /\ UNCHANGED <<ivars, bvars>>
  \/ \E c \in Calls : AskAppend(c) /\ UNCHANGED <<ivars, bvars>>

SpecParse == Init /\ [][NextParse]_vars

\* every call issued so far has ended
AllDone == \A c \in Calls : calls[c].pc = "done"

\* model outputs that are JSON objects
SeqOutputs ==
  { JsonText(GoodPayload), JsonText(WithField(GoodPayload, "judges", JNum(5))) }

\* The calls made one after another: a call is issued when the one before it
\* has ended
NextSeq ==
  \/ AllDone /\ IssueCreate(MaxCalls) /\ UNCHANGED <<ivars, bvars>>
  \/ AllDone /\ IssueAsk(MaxCalls, {BareInput}) /\ UNCHANGED <<ivars, bvars>>
  \/ \E c \in Calls : Acquire(c) /\ UNCHANGED <<ivars, bvars>>
  \/ \E c \in Calls : CreateBody(c) /\ UNCHANGED <<ivars, bvars>>
  \/ \E c \in Calls : AskBegin(c) /\ UNCHANGED <<ivars, bvars>>
  \/ \E c \in Calls : AskReply(c, SeqOutputs) /\ UNCHANGED <<ivars, bvars>>
  \/ \E c \in Calls : AskAppend(c) /\ UNCHANGED <<ivars, bvars>>

SpecSeq == Init /\ [][NextSeq]_vars


\* ------------------------------------------------------------------------
\* The ETL pipeline (src/bulk_ingest.py, src/util/io.py): decoded records
\* ------------------------------------------------------------------------
\*
\* A decoded JSON object is, in the pipeline, a dict in the order of the
\* document: the sequence of its <<key, value>> items.  The other decoded
\* values are the records [t, v] above.

\* a dict with the given items, in insertion order
Dict(items) == [t |-> "dict", v |-> items]

\* the keys of a dict
Keys(d) == {d.v[i][1] : i \in 1..Len(d.v)}

\* rec.get(key) on a dict: None when the key is absent
DictGet(d, key) ==
  IF key \in Keys(d)
  THEN d.v[CHOOSE i \in 1..Len(d.v) : d.v[i][1] = key][2]
  ELSE JNull

\* bool(x) over decoded values, dicts included
Truth(x) == IF x.t = "dict" THEN x.v # <<>> ELSE Truthy(x)

\* str(x) over decoded values; the repr of a dict is one chunk
StrOf(x) == IF x.t = "dict" THEN <<"{..}">> ELSE Str(x)

\* a or b or ... over the values of xs, left to right: the first truthy
\* value, else the last value
RECURSIVE FirstTruthy(_)
FirstTruthy(xs) ==
  IF Len(xs) = 1 \/ Truth(Head(xs)) THEN Head(xs) ELSE FirstTruthy(Tail(xs))

\* rec.get(k1) or rec.get(k2) or ...
GetFirst(rec, keys) == FirstTruthy([i \in 1..Len(keys) |-> DictGet(rec, keys[i])])

\* str(x) if x else None
StrOrNone(x) == IF Truth(x) THEN JStr(StrOf(x)) ELSE JNull

\* The keys the records use, in the order sorted() gives them
KeyOrder ==
  <<"case_id", "cite", "citations", "cluster_id", "court", "id", "name",
    "plain_text", "results", "slug", "title", "type", "uuid">>

KeyRank(k) == CHOOSE i \in 1..Len(KeyOrder) : KeyOrder[i] = k

\* the items left in the order of the document
KeepOrder(items) == items

\* the items of a dict in ascending key order (sort_keys=True)
RECURSIVE SortItems(_)
SortItems(items) ==
  IF items = <<>> THEN <<>>
  ELSE LET m == CHOOSE i \in 1..Len(items) :
                  \A j \in 1..Len(items) : KeyRank(items[i][1]) <= KeyRank(items[j][1])
           rest == [j \in 1..(Len(items) - 1) |->
                      IF j < m THEN items[j] ELSE items[j + 1]]
       IN <<items[m]>> \o SortItems(rest)

\* json.dumps(x, sort_keys=True): the text, as a sequence of atoms
RECURSIVE Dumps(_)
RECURSIVE DumpsItems(_)
RECURSIVE DumpsList(_)
Dumps(x) ==
  CASE x.t = "null" -> <<"null">>
    [] x.t = "num" -> <<ToString(x.v)>>
    [] x.t = "str" -> <<"\"">> \o x.v \o <<"\"">>
    [] x.t = "list" -> <<"[">> \o DumpsList(x.v) \o <<"]">>
    [] x.t = "dict" -> <<"{">> \o DumpsItems(SortItems(x.v)) \o <<"}">>

DumpsItems(items) ==
  IF items = <<>> THEN <<>>
  ELSE <<"\"", Head(items)[1], "\"", ":">> \o Dumps(Head(items)[2])
       \o (IF Len(items) > 1 THEN <<",">> ELSE <<>>) \o DumpsItems(Tail(items))

DumpsList(xs) ==
  IF xs = <<>> THEN <<>>
  ELSE Dumps(Head(xs)) \o (IF Len(xs) > 1 THEN <<",">> ELSE <<>>)
       \o DumpsList(Tail(xs))

\* hashlib.md5(text.encode()).hexdigest(): the digests of different texts are
\* taken to differ, the digest is written as the text it was computed from
Md5Hex(text) == <<"md5">> \o text

\* str.lower() of an atom
Lower(a) ==
  CASE a = "People v" -> "people v"
    [] a = "Breach" -> "breach"
    [] a = ".ZIP" -> ".zip"
    [] a = ".TGZ" -> ".tgz"
    [] OTHER -> a

\* w in title_lower: a keyword is found when it is one of the title's atoms
Contains(s, w) == \E i \in 1..Len(s) : Lower(s[i]) = w

\* the case type inferred from the title (lines 181-188)
InferCaseType(title) ==
  IF \E w \in {"criminal", "people v", "state v", "commonwealth v"} : Contains(title, w)
  THEN JStr(<<"criminal">>)
  ELSE IF \E w \in {"contract", "breach"} : Contains(title, w)
  THEN JStr(<<"contract">>)
  ELSE IF \E w \in {"employ", "discriminat"} : Contains(title, w)
  THEN JStr(<<"employment">>)
  ELSE JNull

\* court / jurisdiction: a nested dict gives its name, else its slug, else
\* its repr (lines 148-151 and 170-173)
Nested(x) ==
  StrOrNone(IF x.t = "dict"
            THEN FirstTruthy(<<DictGet(x, "name"), DictGet(x, "slug"), JStr(StrOf(x))>>)
            ELSE x)

\* the citation (lines 154-159)
Citation(rec) ==
  LET direct == GetFirst(rec, <<"citation", "case_name_full">>)
      cites == DictGet(rec, "citations")
  IN StrOrNone(
       IF ~Truth(direct) /\ Truth(cites) /\ cites.t = "list"
       THEN IF cites.v[1].t = "dict" THEN DictGet(cites.v[1], "cite")
            ELSE JStr(StrOf(cites.v[1]))
       ELSE direct)

\* the id of a record (lines 141-145): the first truthy of id, case_id, uuid,
\* cluster_id, else the digest of the record's canonical text
RecordId(rec) ==
  StrOf(FirstTruthy(<<DictGet(rec, "id"), DictGet(rec, "case_id"),
                      DictGet(rec, "uuid"), DictGet(rec, "cluster_id"),
                      JStr(Md5Hex(Dumps(rec)))>>))

\* the title (lines 166-167)
Title(rec) ==
  StrOrNone(GetFirst(rec, <<"name", "title", "case_name", "case_name_short">>))

\* the case type without the default of line 189
CaseTypeOrNone(rec) ==
  LET given == GetFirst(rec, <<"type", "case_type">>)
  IN StrOrNone(IF ~Truth(given) /\ Title(rec).t = "str"
               THEN InferCaseType(Title(rec).v) ELSE given)

\* the case type (lines 180-189): the type given, else the type inferred
\* from the title, else 'general'
CaseType(rec) ==
  LET given == GetFirst(rec, <<"type", "case_type">>)
      case_type == IF ~Truth(given) /\ Title(rec).t = "str"
                   THEN InferCaseType(Title(rec).v) ELSE given
  IN IF Truth(case_type) THEN JStr(StrOf(case_type)) ELSE JStr(<<"general">>)

\* normalize(rec, raw_path): the tuple it returns, or the exception rec.get
\* raises on a record that is no dict
Normalize(rec, raw_path) ==
  IF rec.t # "dict" THEN [err |-> "AttributeError", row |-> <<>>]
  ELSE LET title == Title(rec)
       IN [err |-> "none",
           row |->
             [id |-> RecordId(rec),
              court |-> Nested(DictGet(rec, "court")),
              citation |-> Citation(rec),
              date |-> StrOrNone(GetFirst(rec, <<"decision_date", "date",
                                                 "date_filed", "date_created">>)),
              title |-> title,
              jurisdiction |-> Nested(DictGet(rec, "jurisdiction")),
              reporter |-> StrOrNone(GetFirst(rec, <<"reporter", "volume">>)),
              case_type |-> CaseType(rec),
              raw_path |-> raw_path,
              full_text_available |->
                IF Truth(GetFirst(rec, <<"casebody", "plain_text", "html", "text">>))
                THEN 1 ELSE 0]]

\* ------------------------------------------------------------------------
\* The ETL pipeline: files, archives and the table
\* ------------------------------------------------------------------------
\*
\* A path is a str whose last atom is its suffix.  A file is its path, its
\* body (the lines of a .jsonl file, the one text of a .json file) and
\* failAt: the line at which reading it raises (bytes that are no UTF-8, a
\* document nested too deep to decode, a path that cannot be opened), 0 when
\* reading never raises.

\* the directories of main() (lines 20-21)
RAW_DIR == "data/raw/"

PROC_DIR == "data/processed/"

File(path, body, failAt) == [path |-> path, body |-> body, failAt |-> failAt]

\* path.endswith(suffix)
EndsWith(path, suffix) == path # <<>> /\ path[Len(path)] = suffix

IsJson(f) == EndsWith(f.path, ".json")

IsJsonl(f) == EndsWith(f.path, ".jsonl")

\* the file abandoned at the first line json.loads rejects
RECURSIVE DecodedUntilBad(_)
DecodedUntilBad(ls) ==
  IF ls = <<>> THEN <<>>
  ELSE LET line == Head(ls)
           loaded == JsonLoads(line)
       IN IF Strip(line.text) = <<>> THEN DecodedUntilBad(Tail(ls))
          ELSE IF loaded.ok THEN <<loaded.val>> \o DecodedUntilBad(Tail(ls))
          ELSE <<>>

\* the lines of a .jsonl file that decode, decoded, in file order: blank
\* lines and lines json.loads rejects are passed over (lines 104-111)
RECURSIVE DecodedLines(_)
DecodedLines(ls) ==
  IF ls = <<>> THEN <<>>
  ELSE LET line == Head(ls)
           loaded == JsonLoads(line)
       IN (IF Strip(line.text) # <<>> /\ loaded.ok THEN <<loaded.val>> ELSE <<>>)
          \o DecodedLines(Tail(ls))

\* the records a .json document holds (lines 116-126): the elements of a
\* list, the elements of the "results" list of a wrapper, else the dict
Unwrap(obj) ==
  CASE obj.t = "list" -> obj.v
    [] obj.t = "dict" ->
         IF "results" \in Keys(obj) /\ DictGet(obj, "results").t = "list"
         THEN DictGet(obj, "results").v
         ELSE <<obj>>
    [] OTHER -> <<>>

\* iter_json_records(path): the records the generator yields, in order.  An
\* exception other than JSONDecodeError ends the generator (lines 130-131):
\* of a .jsonl file the lines before failAt were read, of a .json file
\* nothing
IterJsonRecords(f) ==
  IF IsJsonl(f)
  THEN DecodedLines(IF f.failAt = 0 THEN f.body
                    ELSE SubSeq(f.body, 1, f.failAt - 1))
  ELSE IF IsJson(f)
  THEN IF f.failAt # 0 \/ f.body = <<>> \/ ~JsonLoads(f.body[1]).ok THEN <<>>
       ELSE Unwrap(JsonLoads(f.body[1]).val)
  ELSE <<>>

\* the .jsonl files left out
DiscoverJsonOnly(dir) == SelectSeq(dir, IsJson)

\* the files ingest_sqlite finds (lines 206-213): every .json file, then
\* every .jsonl file
Discover(dir) == SelectSeq(dir, IsJson) \o SelectSeq(dir, IsJsonl)

\* a file written into a directory: in place of the file of that path, else
\* as a new entry
WriteFile(dir, f) ==
  IF \E i \in 1..Len(dir) : dir[i].path = f.path
  THEN [i \in 1..Len(dir) |-> IF dir[i].path = f.path THEN f ELSE dir[i]]
  ELSE Append(dir, f)

RECURSIVE WriteFiles(_, _)
WriteFiles(dir, fs) ==
  IF fs = <<>> THEN dir ELSE WriteFiles(WriteFile(dir, Head(fs)), Tail(fs))

\* An artifact of RAW_DIR: its path, its text (of a gzip file: the text of
\* the decompressed stream), the files the extraction of a zip or tar
\* archive writes into the output directory (up to the point where it
\* fails, if it fails), and whether it can be read to its end as what it is
Artifact(path, body, payload, good) ==
  [path |-> path, body |-> body, payload |-> payload, good |-> good]

\* path.lower()
PathLower(path) == [i \in 1..Len(path) |-> Lower(path[i])]

\* path.endswith(suffix) for a suffix of several atoms
EndsWithAll(path, suffix) ==
  /\ Len(path) >= Len(suffix)
  /\ SubSeq(path, Len(path) - Len(suffix) + 1, Len(path)) = suffix

\* the .gz test made first, without the test for .tar.gz
HandlerGzFirst(path) ==
  LET p == PathLower(path)
  IN IF EndsWith(p, ".gz") THEN "gz"
     ELSE IF EndsWith(p, ".zip") THEN "zip"
     ELSE IF EndsWith(p, ".tgz") THEN "tar.gz"
     ELSE IF EndsWith(p, ".tar") THEN "tar"
     ELSE "none"

\* the branch of extract_if_archive a path takes (lines 32-69)
Handler(path) ==
  LET p == PathLower(path)
  IN IF EndsWith(p, ".zip") THEN "zip"
     ELSE IF EndsWithAll(p, <<".tar", ".gz">>) \/ EndsWith(p, ".tgz") THEN "tar.gz"
     ELSE IF EndsWith(p, ".tar") THEN "tar"
     ELSE IF EndsWith(p, ".gz") /\ ~EndsWithAll(p, <<".tar", ".gz">>) THEN "gz"
     ELSE "none"

\* os.path.join(out_dir, os.path.basename(path)[:-3]) (line 62)
GzOutPath(path) == <<PROC_DIR>> \o SubSeq(path, 2, Len(path) - 1)

\* extract_if_archive(path, out_dir): True when an archive was extracted,
\* False for any other suffix and when the extraction raised.  The gzip
\* branch opens its output file before it reads the stream, so a stream
\* that cannot be read leaves an empty file.
ExtractIfArchive(art, dir) ==
  LET h == Handler(art.path)
  IN IF h = "none" THEN [extracted |-> FALSE, dir |-> dir]
     ELSE IF h = "gz"
     THEN [extracted |-> art.good,
           dir |-> WriteFile(dir, File(GzOutPath(art.path),
                                       IF art.good THEN art.body ELSE <<>>, 0))]
     ELSE [extracted |-> art.good, dir |-> WriteFiles(dir, art.payload)]

\* a lone surrogate: a str that cannot be encoded as UTF-8
Surrogate == "\\ud800"

TextColumns ==
  {"court", "citation", "date", "title", "jurisdiction", "reporter", "case_type"}

\* sqlite3 can bind the values of the row: none holds a lone surrogate
Bindable(row) ==
  /\ \A k \in 1..Len(row.id) : row.id[k] # Surrogate
  /\ \A c \in TextColumns :
       row[c].t = "str" => \A k \in 1..Len(row[c].v) : row[c].v[k] # Surrogate

\* the row as stored: inserted_at takes its default, the time of the insert
StoredRow(row, now) ==
  [c \in DOMAIN row \cup {"inserted_at"} |->
     IF c = "inserted_at" THEN now ELSE row[c]]

\* a table without a primary key: no row ever conflicts
NoPrimaryKey(t, id) == FALSE

\* id TEXT PRIMARY KEY: a row of that id exists
HasId(t, id) == \E k \in 1..Len(t) : t[k].id = id

\* INSERT OR REPLACE: the row of the same id is overwritten
InsertOrReplace(t, row, now) ==
  [table |-> IF HasId(t, row.id)
             THEN [k \in 1..Len(t) |->
                     IF t[k].id = row.id THEN StoredRow(row, now) ELSE t[k]]
             ELSE Append(t, StoredRow(row, now)),
   rowcount |-> 1]

\* INSERT OR IGNORE INTO cases (id TEXT PRIMARY KEY): the table after the
\* statement and cur.rowcount
InsertOrIgnore(t, row, now) ==
  IF HasId(t, row.id) THEN [table |-> t, rowcount |-> 0]
  ELSE [table |-> Append(t, StoredRow(row, now)), rowcount |-> 1]

\* con.commit() after every file whose number is a multiple of it (line 255)
CommitEvery == 10

\* ------------------------------------------------------------------------
\* The ETL pipeline: main() and ingest_sqlite
\* ------------------------------------------------------------------------

\* what a run of main() ended with: its exit code (-1: the process died),
\* whether ingest_sqlite printed its counts, and the counts
Report(exit, counted) ==
  [exit |-> exit, counted |-> counted, extracted |-> run.extracted,
   inserted |-> run.inserted, skipped |-> run.skipped, errors |-> run.errors,
   before |-> IF reports = <<>> THEN <<>> ELSE reports[Len(reports)].after,
   after |-> table]

\* the value of datetime('now') during a run: its number
Now == Len(reports) + 1

\* the file ingest_sqlite is at and the records iter_json_records yields
\* for it
CurrentFile == run.files[run.i]

CurrentRecords == IterJsonRecords(CurrentFile)

\* main() is started (lines 33-43): with no artifact in RAW_DIR it returns 1
MainStart(limit) ==
  /\ run.pc = "idle"
  /\ Len(reports) < limit
  /\ IF rawDir = <<>>
     THEN /\ reports' = Append(reports, Report(1, FALSE))
          /\ UNCHANGED run
     ELSE /\ run' = [IdleRun EXCEPT !.pc = "extract", !.a = 1]
          /\ UNCHANGED reports
  /\ UNCHANGED <<rawDir, procDir, table, durable>>

\* one pass of the loop of lines 46-48
ExtractStep ==
  /\ run.pc = "extract"
  /\ LET r == ExtractIfArchive(rawDir[run.a], procDir)
     IN /\ procDir' = r.dir
        /\ run' = [run EXCEPT
                     !.extracted = IF r.extracted THEN @ + 1 ELSE @,
                     !.a = @ + 1,
                     !.pc = IF run.a = Len(rawDir) THEN "init_db" ELSE @]
  /\ UNCHANGED <<rawDir, table, durable, reports>>

\* get_db and init_schema_sqlite (lines 56-60): CREATE TABLE IF NOT EXISTS
\* and a commit
InitDb ==
  /\ run.pc = "init_db"
  /\ durable' = table
  /\ run' = [run EXCEPT !.pc = "ingest"]
  /\ UNCHANGED <<rawDir, procDir, table, reports>>

\* ingest_sqlite up to its loop (lines 199-224): with no file found it
\* returns 0 at once
IngestStart ==
  /\ run.pc = "ingest"
  /\ LET files == Discover(procDir)
     IN run' = IF files = <<>> THEN [run EXCEPT !.pc = "stats"]
               ELSE [run EXCEPT !.pc = "records", !.files = files,
                                !.i = 1, !.j = 1]
  /\ UNCHANGED <<rawDir, procDir, table, durable, reports>>

\* one pass of the loop over the records of a file (lines 232-252)
IngestRecord ==
  /\ run.pc = "records"
  /\ run.j <= Len(CurrentRecords)
  /\ LET n == Normalize(CurrentRecords[run.j], CurrentFile.path)
         ins == InsertOrIgnore(table, n.row, Now)
     IN IF n.err # "none" \/ ~Bindable(n.row)
        THEN /\ run' = [run EXCEPT !.errors = @ + 1, !.j = @ + 1]
             /\ UNCHANGED table
        ELSE /\ table' = ins.table
             /\ run' = IF ins.rowcount > 0
                       THEN [run EXCEPT !.inserted = @ + 1, !.j = @ + 1]
                       ELSE [run EXCEPT !.skipped = @ + 1, !.j = @ + 1]
  /\ UNCHANGED <<rawDir, procDir, durable, reports>>

\* no commit inside the loop
CommitNever(i, period) == FALSE

\* the number of the file is a multiple of period
CommitDue(i, period) == i % period = 0

\* the end of a pass of the loop over the files (lines 254-256): the commit
\* after every 10th file
FileEnd ==
  /\ run.pc = "records"
  /\ run.j > Len(CurrentRecords)
  /\ durable' = IF CommitDue(run.i, CommitEvery) THEN table ELSE durable
  /\ run' = IF run.i = Len(run.files) THEN [run EXCEPT !.pc = "final"]
            ELSE [run EXCEPT !.i = @ + 1, !.j = 1]
  /\ UNCHANGED <<rawDir, procDir, table, reports>>

\* the final commit and the counts (lines 259-269)
IngestEnd ==
  /\ run.pc = "final"
  /\ durable' = table
  /\ run' = [run EXCEPT !.pc = "counted"]
  /\ UNCHANGED <<rawDir, procDir, table, reports>>

\* get_db_stats, con.close() and return 0 (lines 75-96); closing the
\* connection drops what is not committed
MainEnd ==
  /\ run.pc \in {"stats", "counted"}
  /\ table' = durable
  /\ reports' = Append(reports, [Report(0, run.pc = "counted") EXCEPT !.after = durable])
  /\ run' = IdleRun
  /\ UNCHANGED <<rawDir, procDir, durable>>

\* the process dies during a run: what was not committed is gone
Crash ==
  /\ run.pc # "idle"
  /\ table' = durable
  /\ reports' = Append(reports, [Report(-1, FALSE) EXCEPT !.after = durable])
  /\ run' = IdleRun
  /\ UNCHANGED <<rawDir, procDir, durable>>

\* the session manager is not used
NoService ==
  /\ sessions = [s \in {} |-> 0]
  /\ heap = <<>>
  /\ lock = 0
  /\ calls = <<>>
  /\ sdk = FALSE
  /\ apiKey = FALSE
  /\ client = FALSE

svars == <<sessions, heap, lock, calls, sdk, apiKey, client>>

\* ------------------------------------------------------------------------
\* The ETL pipeline: the directories the runs start from
\* ------------------------------------------------------------------------

Item(k, x) == <<k, x>>

RecA ==
  Dict(<<Item("id", JNum(1)), Item("name", JStr(<<"People v", WS, "Smith">>))>>)

RecB == Dict(<<Item("id", JNum(2)), Item("title", JStr(<<"B">>))>>)

\* another record, of another source, whose id is also "1"
RecSameId ==
  Dict(<<Item("case_id", JStr(<<"1">>)), Item("name", JStr(<<"Other">>))>>)

\* a record whose id field is falsy
RecZeroId == Dict(<<Item("id", JNum(0)), Item("uuid", JStr(<<"u-7">>))>>)

\* a record without any id field, and the same record with its keys in
\* another order
RecNoId ==
  Dict(<<Item("title", JStr(<<"Breach">>)),
         Item("court", Dict(<<Item("slug", JStr(<<"ny">>))>>))>>)

RecNoIdPermuted ==
  Dict(<<Item("court", Dict(<<Item("slug", JStr(<<"ny">>))>>)),
         Item("title", JStr(<<"Breach">>))>>)

\* a record sqlite3 cannot bind
RecSurrogate == Dict(<<Item("id", JNum(3)), Item("name", JStr(<<Surrogate>>))>>)

RecC == Dict(<<Item("id", JNum(4))>>)

RecD == Dict(<<Item("id", JNum(5)), Item("type", JStr(<<"tax">>))>>)

\* a .jsonl file of three lines, the second of which is no JSON
FileA ==
  File(<<PROC_DIR, "a", ".jsonl">>,
       <<JsonText(RecA), RawText(<<"not json">>), JsonText(RecB)>>, 0)

\* a blank line, a line that is JSON but no dict
FileB ==
  File(<<PROC_DIR, "b", ".jsonl">>,
       <<JsonText(RecSameId), RawText(<<WS>>), JsonText(JNum(5)),
         JsonText(RecNoId)>>, 0)

\* a .json file that is a list
FileC ==
  File(<<PROC_DIR, "c", ".json">>,
       <<JsonText(JList(<<RecB, RecNoIdPermuted, RecSurrogate>>))>>, 0)

\* a .json file that is a wrapper with results
FileD ==
  File(<<PROC_DIR, "d", ".json">>,
       <<JsonText(Dict(<<Item("results", JList(<<RecZeroId>>)),
                         Item("id", JNum(9))>>))>>, 0)

\* a .json file that is no JSON
FileE == File(<<PROC_DIR, "e", ".json">>, <<RawText(<<"{bad">>)>>, 0)

\* a .jsonl file whose second line cannot be read
FileF ==
  File(<<PROC_DIR, "f", ".jsonl">>,
       <<JsonText(RecC), RawText(<<"\\xff">>), JsonText(RecD)>>, 2)

FilePool == {FileA, FileB, FileC, FileD, FileE, FileF}

\* the directories of at most n files of the pool, no file twice
Dirs(n) ==
  {d \in UNION {[1..k -> FilePool] : k \in 0..n} :
     \A i, j \in 1..Len(d) : i # j => d[i] # d[j]}

\* what is left of a tar archive when only its gzip layer is taken off
TarBlob == <<RawText(<<"ustar">>)>>

\* RAW_DIR: empty; a file that is no archive; a plain .jsonl file; the gzip
\* of a .jsonl file; a zip that cannot be read, a zip of two files and a
\* tar; a .tgz and a gzip that cannot be read and a .tar.gz of one file
RawDirs ==
  { <<>>,
    <<Artifact(<<RAW_DIR, "notes", ".txt">>, <<RawText(<<"notes">>)>>, <<>>, FALSE)>>,
    <<Artifact(<<RAW_DIR, "a", ".jsonl">>, FileA.body, <<>>, FALSE)>>,
    <<Artifact(<<RAW_DIR, "a", ".jsonl", ".gz">>, FileA.body, <<>>, TRUE)>>,
    <<Artifact(<<RAW_DIR, "bad", ".zip">>, <<>>, <<>>, FALSE),
      Artifact(<<RAW_DIR, "cb", ".ZIP">>, <<>>, <<FileC, FileB>>, TRUE),
      Artifact(<<RAW_DIR, "f", ".tar">>, <<>>, <<FileF>>, TRUE)>>,
    <<Artifact(<<RAW_DIR, "e", ".TGZ">>, <<>>, <<>>, FALSE),
      Artifact(<<RAW_DIR, "x", ".json", ".gz">>, <<>>, <<>>, FALSE),
      Artifact(<<RAW_DIR, "d", ".tar", ".gz">>, TarBlob, <<FileD>>, TRUE)>> }

EmptyDb == table = <<>> /\ durable = <<>> /\ run = IdleRun /\ reports = <<>>

InitIngest ==
  /\ NoService
  /\ NoBackoff
  /\ rawDir \in RawDirs
  /\ procDir \in Dirs(MaxFiles)
  /\ EmptyDb

\* runs of main(), one after another
NextIngest ==
  \/ MainStart(MaxRuns) /\ UNCHANGED <<svars, bvars>>
  \/ ExtractStep /\ UNCHANGED <<svars, bvars>>
  \/ InitDb /\ UNCHANGED <<svars, bvars>>
  \/ IngestStart /\ UNCHANGED <<svars, bvars>>
  \/ IngestRecord /\ UNCHANGED <<svars, bvars>>
  \/ FileEnd /\ UNCHANGED <<svars, bvars>>
  \/ IngestEnd /\ UNCHANGED <<svars, bvars>>
  \/ MainEnd /\ UNCHANGED <<svars, bvars>>

SpecIngest == InitIngest /\ [][NextIngest]_vars

\* the k-th of many small files
SmallFile(k) ==
  File(<<PROC_DIR, ToString(k), ".jsonl">>,
       <<JsonText(Dict(<<Item("id", JNum(k))>>))>>
       \o (IF k % 4 = 0 THEN <<JsonText(RecA)>> ELSE <<>>), 0)

InitCommit ==
  /\ NoService
  /\ NoBackoff
  /\ rawDir = <<Artifact(<<RAW_DIR, "notes", ".txt">>, <<RawText(<<"notes">>)>>, <<>>, FALSE)>>
  /\ \E n \in 0..MaxCommitFiles : procDir = [k \in 1..n |-> SmallFile(k)]
  /\ EmptyDb

\* runs of main() over many files, with the process dying at any point
NextCommit ==
  \/ MainStart(MaxRuns) /\ UNCHANGED <<svars, bvars>>
  \/ ExtractStep /\ UNCHANGED <<svars, bvars>>
  \/ InitDb /\ UNCHANGED <<svars, bvars>>
  \/ IngestStart /\ UNCHANGED <<svars, bvars>>
  \/ IngestRecord /\ UNCHANGED <<svars, bvars>>
  \/ FileEnd /\ UNCHANGED <<svars, bvars>>
  \/ IngestEnd /\ UNCHANGED <<svars, bvars>>
  \/ MainEnd /\ UNCHANGED <<svars, bvars>>
  \/ Crash /\ UNCHANGED <<svars, bvars>>

SpecCommit == InitCommit /\ [][NextCommit]_vars

\* ------------------------------------------------------------------------
\* The ETL pipeline: one run over one record of any shape
\* ------------------------------------------------------------------------

\* the most keys a generated record has
MaxKeys == 2

NormKeys == {"id", "case_id", "title", "type", "citations"}

\* null, a number and a str that are falsy, a str, a list and a nested dict
NormValues ==
  { JNull, JNum(0), JStr(<<>>), JStr(<<"People v", WS, "Doe">>),
    JList(<<JStr(<<"1 U.S. 1">>)>>),
    Dict(<<Item("slug", JStr(<<"ny">>))>>) }

\* the dicts of at most n items over these keys and values, in any key order
NormRecords(n) ==
  UNION { { Dict([i \in 1..k |-> Item(ks[i], xs[i])]) :
              ks \in {f \in [1..k -> NormKeys] :
                        \A i, j \in 1..k : i # j => f[i] # f[j]},
              xs \in [1..k -> NormValues] } : k \in 0..n }

NormPath == <<PROC_DIR, "n", ".jsonl">>

InitNormalize ==
  /\ NoService
  /\ NoBackoff
  /\ rawDir = <<Artifact(<<RAW_DIR, "notes", ".txt">>, <<RawText(<<"notes">>)>>, <<>>, FALSE)>>
  /\ \E rec \in NormRecords(MaxKeys) :
       procDir = <<File(NormPath, <<JsonText(rec)>>, 0)>>
  /\ EmptyDb

\* one run of main()
NextNormalize ==
  \/ MainStart(1) /\ UNCHANGED <<svars, bvars>>
  \/ ExtractStep /\ UNCHANGED <<svars, bvars>>
  \/ InitDb /\ UNCHANGED <<svars, bvars>>
  \/ IngestStart /\ UNCHANGED <<svars, bvars>>
  \/ IngestRecord /\ UNCHANGED <<svars, bvars>>
  \/ FileEnd /\ UNCHANGED <<svars, bvars>>
  \/ IngestEnd /\ UNCHANGED <<svars, bvars>>
  \/ MainEnd /\ UNCHANGED <<svars, bvars>>

SpecNormalize == InitNormalize /\ [][NextNormalize]_vars

\* ------------------------------------------------------------------------
\* The retry helper (src/util/backoff.py)
\* ------------------------------------------------------------------------
\*
\* Delays are in seconds; the jitter and the total delay, which have a
\* fractional part, are in tenths of a second.

\* the defaults of sleep_backoff: base 2.0, cap 60.0 s, jitter 0.6 s
BASE == 2

CAP == 60

JITTER == 6

\* 2.0 ** e is a float up to e = 1023; from e = 1024 on the power raises
\* OverflowError
DBL_MAX_EXP == 1024

\* the attempt numbers of the calls of sleep_backoff, the calls made and
\* the values of max_retries, at most
MaxAttempt == 8

MaxNaps == 2

MaxRetries == 3

Min(a, b) == IF a <= b THEN a ELSE b

Max(a, b) == IF a >= b THEN a ELSE b

\* min(cap, p * base ** e) for base >= 1, without forming a power beyond cap
RECURSIVE PowUpTo(_, _, _, _)
PowUpTo(p, base, e, cap) ==
  IF e = 0 \/ p >= cap THEN Min(cap, p) ELSE PowUpTo(p * base, base, e - 1, cap)

\* sleep_backoff(attempt) when random.uniform gives jitter_amount: the
\* exception that leaves it, the pre-jitter delay and the delay it slept and
\* returns
SleepBackoff(attempt, jitter_amount) ==
  IF Max(0, attempt - 1) >= DBL_MAX_EXP
  THEN [err |-> "OverflowError", attempt |-> attempt, delay |-> 0, total_delay |-> 0]
  ELSE LET delay == PowUpTo(1, BASE, Max(0, attempt - 1), CAP)
       IN [err |-> "none", attempt |-> attempt, delay |-> delay,
           total_delay |-> 10 * delay + jitter_amount]

\* random.uniform(0, jitter), in tenths
Jitters == 0..JITTER

\* attempt numbers: the first ones and the ones around the largest exponent
Attempts == 1..MaxAttempt \cup {DBL_MAX_EXP, DBL_MAX_EXP + 1}

\* a call of sleep_backoff
NapCall(limit) ==
  /\ Len(naps) < limit
  /\ \E attempt \in Attempts, jitter_amount \in Jitters :
       naps' = Append(naps, SleepBackoff(attempt, jitter_amount))
  /\ UNCHANGED retry

InitBackoff == NoService /\ NoPipeline /\ NoBackoff

NextBackoff == NapCall(MaxNaps) /\ UNCHANGED <<svars, ivars>>

SpecBackoff == InitBackoff /\ [][NextBackoff]_vars

\* the exception the k-th invocation of func raises
FuncError(k) == <<"func error", k>>

\* values of max_retries: small ones and one beyond the largest exponent
RetryCounts == 1..MaxRetries \cup {DBL_MAX_EXP + 2}

\* retry_with_backoff(func, max_retries) is called (lines 43-45)
RetryStart(counts) ==
  /\ retry = IdleRetry
  /\ \E m \in counts :
       retry' = [IdleRetry EXCEPT !.pc = "call", !.max_retries = m, !.attempt = 1]
  /\ UNCHANGED naps

\* func() is invoked (lines 46-52 and 57): it returns, or it raises and the
\* loop goes on to the wait, or, after the last attempt, to the raise
Invoke ==
  /\ retry.pc = "call"
  /\ \E ok \in BOOLEAN :
       retry' =
         IF ok
         THEN [retry EXCEPT !.pc = "done", !.invoked = @ + 1,
                            !.outcome = "returned", !.value = <<"result", retry.attempt>>]
         ELSE IF retry.attempt < retry.max_retries
         THEN [retry EXCEPT !.pc = "sleep", !.invoked = @ + 1,
                            !.last_exception = FuncError(retry.attempt)]
         ELSE [retry EXCEPT !.pc = "done", !.invoked = @ + 1,
                            !.last_exception = FuncError(retry.attempt),
                            !.outcome = "raised", !.value = FuncError(retry.attempt)]
  /\ UNCHANGED naps

\* sleep_backoff(attempt, base=base, cap=cap) inside the except block
\* (line 53): what it raises leaves retry_with_backoff
Wait ==
  /\ retry.pc = "sleep"
  /\ \E jitter_amount \in Jitters :
       LET nap == SleepBackoff(retry.attempt, jitter_amount)
       IN retry' =
            IF nap.err # "none"
            THEN [retry EXCEPT !.pc = "done", !.outcome = "raised",
                               !.value = <<nap.err>>]
            ELSE [retry EXCEPT !.pc = "call", !.attempt = @ + 1, !.slept = @ + 1,
                               !.nap = nap]
  /\ UNCHANGED naps

NextRetry ==
  \/ RetryStart(RetryCounts) /\ UNCHANGED <<svars, ivars>>
  \/ Invoke /\ UNCHANGED <<svars, ivars>>
  \/ Wait /\ UNCHANGED <<svars, ivars>>

SpecRetry == InitBackoff /\ [][NextRetry]_vars

\* ------------------------------------------------------------------------
\* Properties
\* ------------------------------------------------------------------------

IsPrefix(a, b) == Len(a) <= Len(b) /\ SubSeq(b, 1, Len(a)) = a

AskCalls == {c \in Calls : calls[c].op = "ask"}

\* the calls that took the step
Stepped == {c \in Calls : calls'[c] # calls[c]}

Returned(c) == calls[c].pc = "done" /\ calls[c].outcome = "returned"

\* the system entry followed by complete (user, assistant) pairs, each pair
\* built by one call
Paired(t) ==
  /\ Len(t) % 2 = 1
  /\ t[1] = SystemMsg
  /\ \A k \in 1..(Len(t) \div 2) :
       /\ t[2 * k].role = "user"
       /\ t[2 * k + 1].role = "assistant"
       /\ t[2 * k].turn = t[2 * k + 1].turn

\* The transcript _get_session_copy returned to call c: the list
\* `conversation` without the prompt that line 141 appended to it
Snapshot(c) ==
  IF calls[c].asked
  THEN SubSeq(heap[calls[c].list], 1, Len(heap[calls[c].list]) - 1)
  ELSE heap[calls[c].list]

\* C1: a session enters the registry with a transcript that is exactly the
\* system seed, and every step of any call leaves every stored session in
\* the registry with its earlier transcript as a prefix of the new one.
C1_SeedThenAppendOnly ==
  [][/\ \A s \in DOMAIN sessions' \ DOMAIN sessions :
          Transcript(s)' = <<SystemMsg>>
     /\ \A s \in DOMAIN sessions :
          /\ s \in DOMAIN sessions'
          /\ IsPrefix(Transcript(s), Transcript(s)')]_vars

\* a session whose transcript has grown by two turns
C1_Witness ==
  \E s \in DOMAIN sessions : Len(Transcript(s)) >= 5

\* C2: every stored transcript and every snapshot that _get_session_copy
\* returned is the system entry followed by complete (user, assistant)
\* pairs of one call each.
C2_OnlyCompletePairs ==
  /\ \A s \in DOMAIN sessions : Paired(Transcript(s))
  /\ \A c \in AskCalls : calls[c].list # 0 => Paired(Snapshot(c))

\* two calls on one session in flight together: one has appended its pair
\* and the other, whose snapshot already holds a pair, awaits the model
C2_Witness ==
  \E a \in AskCalls, b \in AskCalls :
    /\ a # b
    /\ calls[a].sid = calls[b].sid
    /\ Returned(a)
    /\ calls[b].pc = "model"
    /\ Len(Snapshot(b)) = 1
    /\ Len(Transcript(calls[b].sid)) = 3

\* C3: in every stored transcript the pairs are in the order in which their
\* ask_question calls were issued.
C3_RequestOrder ==
  \A s \in DOMAIN sessions :
    \A i \in 1..Len(Transcript(s)), j \in 1..Len(Transcript(s)) :
      i < j => Transcript(s)[i].turn <= Transcript(s)[j].turn

\* C4: a step of an ask_question call on one session, whether it fails or
\* not, leaves every other session stored with its transcript unchanged.
C4_SessionIsolation ==
  [][\A c \in Stepped :
       calls[c].op = "ask" =>
         \A b \in DOMAIN sessions \ {calls[c].sid} :
           /\ b \in DOMAIN sessions'
           /\ Transcript(b)' = Transcript(b)]_vars

\* two stored sessions, one with an appended turn, the other with the seed
C4_Witness ==
  \E a \in DOMAIN sessions, b \in DOMAIN sessions :
    /\ a # b
    /\ Len(Transcript(a)) = 3
    /\ Len(Transcript(b)) = 1

\* C5: the step of ask_question that takes the snapshot and appends the user
\* prompt to it leaves every stored transcript unchanged, and no step
\* changes the conversation of a call whose model call is in flight or
\* whose reply awaits _append_messages.
C5_IndependentCopy ==
  [][/\ \A c \in Stepped :
          calls[c].pc = "copy_locked" =>
            \A s \in DOMAIN sessions : Transcript(s)' = Transcript(s)
     /\ \A c \in AskCalls :
          calls[c].pc \in {"model", "append_lock", "append_locked"} =>
            heap'[calls[c].list] = heap[calls[c].list]]_vars

\* a call in flight whose snapshot was taken before another call appended
\* to the same session
C5_Witness ==
  \E c \in AskCalls :
    /\ calls[c].pc \in {"model", "append_lock"}
    /\ Len(heap[calls[c].list]) = 2
    /\ Len(Transcript(calls[c].sid)) = 3

\* C6: a step of an ask_question call whose session_id is not in the
\* registry never invokes the model and changes neither the registry nor
\* any list; when it ends the call, the call has raised
\* CounselSessionNotFound (not-found at the endpoint).
C6_UnknownSession ==
  [][\A c \in Stepped :
       (calls[c].op = "ask" /\ calls[c].sid \notin DOMAIN sessions) =>
         /\ ~calls'[c].asked
         /\ sessions' = sessions
         /\ heap' = heap
         /\ calls'[c].pc = "done" =>
              /\ calls'[c].outcome = "CounselSessionNotFound"
              /\ calls'[c].status = 404]_vars

\* a call on an unknown id has raised while a stored session holds a turn
C6_Witness ==
  \E c \in AskCalls :
    /\ calls[c].pc = "done"
    /\ calls[c].outcome = "CounselSessionNotFound"
    /\ calls[c].sid \notin DOMAIN sessions
    /\ \E s \in DOMAIN sessions : Len(Transcript(s)) = 3

GotContent(c) == calls[c].pc = "done" /\ calls[c].reply.kind = "content"

\* C8: every ask_question call whose model call returned a text has
\* returned a result, and the endpoint answered below the 5xx class.
C8_NeverRaisesOnModelOutput ==
  \A c \in AskCalls :
    GotContent(c) => calls[c].outcome = "returned" /\ calls[c].status < 500

\* the number of entries of the judges list in the model's text: 0 when the
\* text is no JSON object or has no judges list
Supplied(content) ==
  LET loaded == JsonLoads(content)
  IN IF loaded.ok /\ loaded.val.t = "obj"
        /\ Get(loaded.val, "judges").t = "list"
     THEN Len(Get(loaded.val, "judges").v)
     ELSE 0

\* the default roster in roster order, each member with the given opinion
IsDefaultRoster(judges, opinion) ==
  /\ Len(judges) = 3
  /\ judges[1].judge = <<"Judge Morrison">>
  /\ judges[2].judge = <<"Judge Chen">>
  /\ judges[3].judge = <<"Judge Rodriguez">>
  /\ \A i \in 1..3 :
       /\ judges[i].specialty = DEFAULT_PANEL[i].specialty
       /\ judges[i].opinion = opinion

PlainTextAnswer(c, text) ==
  /\ Returned(c)
  /\ calls[c].result.answer = text
  /\ IsDefaultRoster(calls[c].result.judges, text)
  /\ calls[c].result.citations = JList(<<>>)

\* C10 as stated: for a non-empty text that is no JSON the result is the
\* trimmed text as answer, the default roster with the trimmed text as
\* opinion and no citations.
C10_NonEmptyText ==
  \A c \in AskCalls :
    (GotContent(c) /\ calls[c].reply.content.kind = "text"
       /\ calls[c].reply.content.text # <<>>) =>
      PlainTextAnswer(c, Strip(calls[c].reply.content.text))

\* C10 amended: the same for a text that is non-empty after trimming.
C10_NonBlankText ==
  \A c \in AskCalls :
    (GotContent(c) /\ calls[c].reply.content.kind = "text"
       /\ Strip(calls[c].reply.content.text) # <<>>) =>
      PlainTextAnswer(c, Strip(calls[c].reply.content.text))

\* a call has returned for a padded text that is no JSON
C10_Witness ==
  \E c \in AskCalls :
    /\ Returned(c)
    /\ calls[c].reply.content = RawText(<<WS, "x", WS>>)
    /\ calls[c].result.answer = <<"x">>

\* the k-th call of the set S in the order the calls were issued
Nth(S, k) == CHOOSE c \in S : Cardinality({d \in S : d < c}) = k - 1

\* the model call of c ended with a reply whose content is a JSON object
JsonObjectReply(c) ==
  /\ calls[c].reply.kind = "content"
  /\ calls[c].reply.content.kind = "json"
  /\ calls[c].reply.content.val.t = "obj"

\* C11: when the n ask_question calls made on a session one after another
\* have all ended and each got a JSON object from the model, the transcript
\* has 1 + 2n entries, the system entry and then per call, in call order, the
\* call's user prompt and its assistant entry, and the conversation sent on a
\* turn is the transcript of the turns before it followed by its prompt.
C11_SequentialTurns ==
  \A s \in DOMAIN sessions :
    LET asks == {c \in AskCalls : calls[c].sid = s}
        n == Cardinality(asks)
        t == Transcript(s)
    IN (\A c \in asks : calls[c].pc = "done" /\ JsonObjectReply(c)) =>
         /\ Len(t) = 1 + 2 * n
         /\ t[1] = SystemMsg
         /\ \A k \in 1..n :
              LET c == Nth(asks, k)
              IN /\ t[2 * k] = UserMsg(c)
                 /\ t[2 * k + 1].role = "assistant"
                 /\ t[2 * k + 1].turn = c
                 /\ heap[calls[c].list] = SubSeq(t, 1, 2 * k)

\* the model call of c raised or returned a response without choices
FailedModelCall(c) ==
  /\ calls[c].op = "ask"
  /\ calls[c].pc = "done"
  /\ calls[c].reply.kind \in {"raise OpenAIError", "raise Exception", "no choices"}

\* C12: an ask_question call whose model call raised or returned no choices
\* raises CounselServiceError itself (not a subclass, not the provider's
\* class), the step on which it fails changes no stored transcript, and no
\* stored transcript ever holds an entry built by the failed call.
C12_ModelFailure ==
  /\ [](\A c \in Calls :
          FailedModelCall(c) =>
            /\ calls[c].outcome = "CounselServiceError"
            /\ \A s \in DOMAIN sessions :
                 \A i \in 1..Len(Transcript(s)) : Transcript(s)[i].turn # c)
  /\ [][\A c \in Stepped :
          FailedModelCall(c)' =>
            \A s \in DOMAIN sessions :
              s \in DOMAIN sessions' /\ Transcript(s)' = Transcript(s)]_vars

\* a model call that failed on a session that already holds one turn
C12_Witness ==
  \E c \in Calls :
    /\ FailedModelCall(c)
    /\ calls[c].sid \in DOMAIN sessions
    /\ Len(Transcript(calls[c].sid)) = 3

\* C13: every ask_question call that raised is answered with one status
\* class: 404 for CounselSessionNotFound, 503 for CounselConfigurationError,
\* 502 for any other CounselServiceError, and 502 for neither of the two
\* subclasses.
C13_OneStatusPerFailure ==
  \A c \in AskCalls :
    calls[c].pc = "done" /\ calls[c].outcome # "returned" =>
      LET e == calls[c].outcome
          sub == e \in {"CounselSessionNotFound", "CounselConfigurationError"}
      IN /\ e = "CounselSessionNotFound" => calls[c].status = 404
         /\ e = "CounselConfigurationError" => calls[c].status = 503
         /\ IsInstance(e, "CounselServiceError") /\ ~sub => calls[c].status = 502
         /\ calls[c].status = 502 => ~sub

\* one call answered 404 and another answered 502
C13_Witness ==
  \E a, b \in AskCalls :
    /\ calls[a].pc = "done" /\ calls[a].outcome = "CounselSessionNotFound"
    /\ calls[a].status = 404
    /\ calls[b].pc = "done" /\ calls[b].outcome = "CounselServiceError"
    /\ calls[b].status = 502

CreateCalls == {c \in Calls : calls[c].op = "create"}

\* C14: the create_session calls have pairwise different session ids, and the
\* registry holds exactly the sessions of the completed calls, one per call,
\* each with the list that call built, whose only system entry is its first
\* entry.
C14_OneSessionPerCreate ==
  LET completed == {c \in CreateCalls : calls[c].pc = "done"}
  IN /\ \A a, b \in CreateCalls : a # b => calls[a].sid # calls[b].sid
     /\ DOMAIN sessions = {calls[c].sid : c \in completed}
     /\ Cardinality(DOMAIN sessions) = Cardinality(completed)
     /\ \A c \in completed :
          LET t == Transcript(calls[c].sid)
          IN /\ sessions[calls[c].sid] = calls[c].list
             /\ t # <<>> /\ t[1] = SystemMsg
             /\ {i \in 1..Len(t) : t[i].role = "system"} = {1}

\* two overlapping create_session calls: the one issued later has completed
\* and is stored while the one issued first still waits for the lock
C14_Witness ==
  \E a, b \in CreateCalls :
    /\ a < b
    /\ calls[b].pc = "done"
    /\ calls[b].sid \in DOMAIN sessions
    /\ calls[a].pc = "create_lock"

\* C15: a completed run that follows a completed run leaves the table as the
\* first left it, counts nothing as inserted, and counts as skipped every
\* record the first run inserted or skipped; its errors are the first run's.
C15_Idempotent ==
  \A r \in 2..Len(reports) :
    reports[r].exit = 0 /\ reports[r - 1].exit = 0 =>
      /\ reports[r].after = reports[r - 1].after
      /\ reports[r].inserted = 0
      /\ reports[r].skipped = reports[r - 1].inserted + reports[r - 1].skipped
      /\ reports[r].errors = reports[r - 1].errors

\* a second run over files of which the first run inserted records, skipped
\* one and failed on one
C15_Witness ==
  /\ Len(reports) = 2
  /\ reports[1].inserted > 0 /\ reports[1].skipped > 0 /\ reports[1].errors > 0
  /\ reports[2].exit = 0 /\ reports[2].counted

\* the record ingest_sqlite is about to insert has the id of a stored row
SameIdAttempt ==
  /\ run.pc = "records"
  /\ run.j <= Len(CurrentRecords)
  /\ LET n == Normalize(CurrentRecords[run.j], CurrentFile.path)
     IN /\ n.err = "none"
        /\ Bindable(n.row)
        /\ \E k \in 1..Len(table) : table[k].id = n.row.id

\* C16: the table never holds two rows of one id; no step of a run changes
\* or removes a stored row; and the attempt to insert a record whose id is
\* stored leaves the table as it is and adds one to skipped and nothing to
\* errors or inserted.
C16_FirstWriteWins ==
  /\ [](\A k, l \in 1..Len(table) : table[k].id = table[l].id => k = l)
  /\ [][/\ IsPrefix(table, table')
        /\ SameIdAttempt /\ run'.pc = "records" /\ run'.j = run.j + 1 =>
             /\ table' = table
             /\ run'.skipped = run.skipped + 1
             /\ run'.errors = run.errors
             /\ run'.inserted = run.inserted]_vars

\* in the first run, a record was skipped because another record of the run
\* had its id
C16_Witness ==
  /\ reports = <<>>
  /\ run.skipped > 0
  /\ run.inserted > 0

\* the files of the processing directory that ingest_sqlite is to read, in
\* the order it reads them: the .json files, then the .jsonl files
InputFiles == SelectSeq(procDir, IsJson) \o SelectSeq(procDir, IsJsonl)

\* the texts of a sequence of lines that are JSON documents, decoded
RECURSIVE JsonLines(_)
JsonLines(ls) ==
  IF ls = <<>> THEN <<>>
  ELSE (IF Head(ls).kind = "json" THEN <<Head(ls).val>> ELSE <<>>)
       \o JsonLines(Tail(ls))

\* the records present in a file, whether or not the run got to read them
PresentRecords(f) ==
  IF IsJsonl(f) THEN JsonLines(f.body)
  ELSE IF f.body # <<>> /\ f.body[1].kind = "json" THEN Unwrap(f.body[1].val)
  ELSE <<>>

\* a record that normalizes and can be stored
WellFormed(rec, path) ==
  /\ rec.t = "dict"
  /\ Bindable(Normalize(rec, path).row)

\* the stored row holds the record: every column the record determines
Holds(stored, rec, path) ==
  LET row == Normalize(rec, path).row
  IN \A c \in DOMAIN row \ {"raw_path"} : stored[c] = row[c]

\* the runs of main() that returned 0
Completed == {r \in 1..Len(reports) : reports[r].exit = 0}

RECURSIVE YieldedOf(_, _)
YieldedOf(recs, path) ==
  IF recs = <<>> THEN <<>>
  ELSE (IF WellFormed(Head(recs), path)
        THEN <<[rec |-> Head(recs), path |-> path]>> ELSE <<>>)
       \o YieldedOf(Tail(recs), path)

RECURSIVE YieldedOver(_)
YieldedOver(fs) ==
  IF fs = <<>> THEN <<>>
  ELSE YieldedOf(IterJsonRecords(Head(fs)), Head(fs).path)
       \o YieldedOver(Tail(fs))

DistinctIds(recs) ==
  \A a, b \in 1..Len(recs) : RecordId(recs[a]) = RecordId(recs[b]) => a = b

\* text lines of which every JSON line is a well-formed record, the ids
\* pairwise different, and every other non-blank line is one that json.loads
\* rejects
CleanLines(body, path) ==
  /\ \A j \in 1..Len(JsonLines(body)) : WellFormed(JsonLines(body)[j], path)
  /\ DistinctIds(JsonLines(body))

\* the first run of main() has ended
FirstRunEnded == reports # <<>>

RECURSIVE PresentIn(_)
PresentIn(fs) ==
  IF fs = <<>> THEN 0
  ELSE Len(PresentRecords(Head(fs))) + PresentIn(Tail(fs))

\* C19 as stated: every run over a non-empty RAW_DIR returns 0, and when
\* there are input files it reports counts in which every record present in
\* them is counted, as inserted, as skipped or as an error: nothing after a
\* bad line, file or record is left out.
C19_NothingStopsTheRun ==
  \A r \in 1..Len(reports) :
    rawDir # <<>> =>
      /\ reports[r].exit = 0
      /\ InputFiles # <<>> =>
           /\ reports[r].counted
           /\ reports[r].inserted + reports[r].skipped + reports[r].errors
                = PresentIn(InputFiles)

\* the rows of the table that are not committed
Uncommitted == SubSeq(table, Len(durable) + 1, Len(table))

\* the files read since the last commit inside the loop: those after the
\* last multiple of CommitEvery before the current file
SinceCommit ==
  {run.files[k].path :
     k \in (CommitEvery * ((run.i - 1) \div CommitEvery) + 1)..run.i}

\* C20: the committed rows change only at the end of a file whose number is
\* a multiple of 10 and at the final commit, and each time become the whole
\* table; committed rows are never lost, and after a crash the table is
\* exactly the committed rows; during the loop the uncommitted rows come from
\* the files read since the last commit, at most 10 files; when ingest_sqlite
\* has returned, the whole table is committed.
C20_CommitEveryTenFiles ==
  /\ [](/\ IsPrefix(durable, table)
        /\ run.pc = "records" =>
             /\ \A k \in 1..Len(Uncommitted) : Uncommitted[k].raw_path \in SinceCommit
             /\ Cardinality({Uncommitted[k].raw_path : k \in 1..Len(Uncommitted)})
                  <= CommitEvery
        /\ run.pc \in {"counted", "stats", "idle"} => table = durable)
  /\ [][/\ IsPrefix(durable, durable')
        /\ durable' # durable =>
             /\ durable' = table
             /\ \/ run.pc = "final"
                \/ /\ run.pc = "records"
                   /\ run.j > Len(CurrentRecords)
                   /\ run.i % CommitEvery = 0
        /\ run.pc = "records" /\ run'.pc = "records" /\ run'.i = run.i + 1
           /\ run.i % CommitEvery = 0 => durable' = table
        /\ run.pc = "final" /\ run'.pc = "counted" => durable' = table
        /\ run.pc # "idle" /\ run'.pc = "idle" /\ reports'[Len(reports')].exit = -1 =>
             table' = durable /\ durable' = durable]_vars

\* the process died in the file after the 10th: the rows of the first 10
\* files are in the table, the row inserted after them is not
C20_Witness ==
  \E r \in 1..Len(reports) :
    /\ reports[r].exit = -1
    /\ reports[r].before = <<>>
    /\ Len(reports[r].after) >= CommitEvery
    /\ reports[r].inserted > Len(reports[r].after)
    /\ r = Len(reports) /\ table = reports[r].after


\* C21: every run of main() that completed ended with exit status zero,
\* the runs that found RAW_DIR empty included (RAW_DIR can be read in every
\* state here).
C21_ZeroExitOnCompletion ==
  \A r \in 1..Len(reports) : reports[r].exit # -1 => reports[r].exit = 0

\* the record of the one line of the one file
TheRecord == JsonLoads(procDir[1].body[1]).val

IdFields == <<"id", "case_id", "uuid", "cluster_id">>

HasNoIdField(rec) == \A k \in 1..Len(IdFields) : IdFields[k] \notin Keys(rec)

\* the items in every order
Reorderings(items) ==
  { [i \in 1..Len(items) |-> items[f[i]]] :
      f \in {g \in [1..Len(items) -> 1..Len(items)] :
               \A i, j \in 1..Len(items) : i # j => g[i] # g[j]} }

\* the record has been normalized and its row is in the table
RowStored == run.inserted = 1 /\ Len(table) = 1

\* C22: for a record without id, case_id, uuid and cluster_id, normalize
\* gives the same id for every order of the record's keys and every
\* raw_path, the id is the digest of the record's sorted serialization, a
\* record that differs in one field value has another serialization, and
\* the row the run stores carries that id.
C22_DeterministicDerivedId ==
  LET rec == TheRecord
      id == Normalize(rec, NormPath).row.id
  IN HasNoIdField(rec) =>
       /\ \A q \in Reorderings(rec.v), p \in {NormPath, <<RAW_DIR, "x", ".json">>} :
            Normalize(Dict(q), p).row.id = id
       /\ id = Md5Hex(Dumps(rec))
       /\ \A k \in 1..Len(rec.v) :
            \A x \in NormValues \ {rec.v[k][2]} :
              Dumps(Dict([rec.v EXCEPT ![k] = Item(rec.v[k][1], x)])) # Dumps(rec)
       /\ RowStored => table[1].id = id

\* a record of two fields, none of them an id field, whose keys are not in
\* sorted order, has been stored
C22_Witness ==
  /\ RowStored
  /\ HasNoIdField(TheRecord)
  /\ Len(TheRecord.v) = 2
  /\ KeyRank(TheRecord.v[1][1]) > KeyRank(TheRecord.v[2][1])

Keywords ==
  {"criminal", "people v", "state v", "commonwealth v", "contract", "breach",
   "employ", "discriminat"}

\* C23: normalize returns for every dict, empty, nested or with values of
\* any type, without raising, so the run counts no error and stores one
\* row; case_type is a non-empty str, and it is "general" when the record
\* has neither type nor case_type and its title holds no keyword.
C23_NormalizeTotal ==
  LET rec == TheRecord
      n == Normalize(rec, NormPath)
  IN /\ n.err = "none"
     /\ n.row.case_type.t = "str"
     /\ n.row.case_type.v # <<>>
     /\ ( /\ "type" \notin Keys(rec)
          /\ "case_type" \notin Keys(rec)
          /\ n.row.title.t = "str" => \A w \in Keywords : ~Contains(n.row.title.v, w) )
        => n.row.case_type = JStr(<<"general">>)
     /\ run.errors = 0
     /\ run.pc = "counted" => RowStored /\ table[1].case_type = n.row.case_type

\* the rows stored for the empty record and for a record whose title is a
\* nested dict: both "general"
C23_Witness ==
  /\ RowStored
  /\ table[1].case_type = JStr(<<"general">>)
  /\ \/ TheRecord.v = <<>>
     \/ /\ DictGet(TheRecord, "title").t = "dict"
        /\ DictGet(TheRecord, "citations").t = "list"

\* the id fields the record has, in the order of IdFields
PresentIdFields(rec) == SelectSeq(IdFields, LAMBDA k : k \in Keys(rec))

\* C28: the id of the normalized record is the str of the first of id,
\* case_id, uuid, cluster_id the record has, whatever its value, and the
\* digest only when the record has none of the four.
C28_FirstPresentIdField ==
  LET rec == TheRecord
      id == Normalize(rec, NormPath).row.id
  IN IF PresentIdFields(rec) # <<>>
     THEN id = StrOf(DictGet(rec, Head(PresentIdFields(rec))))
     ELSE id = Md5Hex(Dumps(rec))

\* the number of records iter_json_records yields for the files fs
RECURSIVE YieldedCount(_)
YieldedCount(fs) ==
  IF fs = <<>> THEN 0
  ELSE Len(IterJsonRecords(Head(fs))) + YieldedCount(Tail(fs))

\* the records the loops of ingest_sqlite have taken so far in this run
YieldedSoFar ==
  CASE run.pc = "records" ->
         YieldedCount(SubSeq(run.files, 1, run.i - 1)) + run.j - 1
    [] run.pc \in {"final", "counted"} -> YieldedCount(run.files)
    [] OTHER -> 0

\* the table as the run found it
TableAtStart == IF reports = <<>> THEN <<>> ELSE reports[Len(reports)].after

\* C29: in every state of a run, inserted + skipped + errors is the number
\* of records yielded so far and inserted is the number of rows the run has
\* added to the table; every step counts at most one record, in one
\* counter, and a step that counts in skipped or errors leaves the table as
\* it was.
C29_CountersPartitionYielded ==
  /\ [](/\ run.inserted + run.skipped + run.errors = YieldedSoFar
        /\ run.pc # "idle" => run.inserted = Len(table) - Len(TableAtStart))
  /\ [][/\ run'.pc # "idle" =>
             (run'.inserted - run.inserted) + (run'.skipped - run.skipped)
               + (run'.errors - run.errors) \in {0, 1}
        /\ (run'.skipped > run.skipped \/ run'.errors > run.errors) =>
             table' = table
        /\ run'.inserted > run.inserted => Len(table') = Len(table) + 1]_vars

\* a run that has counted records in each of the three counters
C29_Witness ==
  /\ run.pc = "records"
  /\ run.inserted >= 1
  /\ run.skipped >= 1
  /\ run.errors >= 1

\* the path ends, in any letter case, in .zip, .tar, .tar.gz, .tgz or .gz
SupportedSuffix(path) ==
  Lower(path[Len(path)]) \in {".zip", ".tar", ".tgz", ".gz"}

\* the path ends in .tar.gz or .tgz
TarGzSuffix(path) ==
  \/ Lower(path[Len(path)]) = ".tgz"
  \/ /\ Len(path) >= 2
     /\ Lower(path[Len(path)]) = ".gz"
     /\ Lower(path[Len(path) - 1]) = ".tar"

\* the artifacts whose extraction returns True
Extractable ==
  {k \in 1..Len(rawDir) : SupportedSuffix(rawDir[k].path) /\ rawDir[k].good}

\* C26: extract_if_archive returns a value for every artifact: True exactly
\* for a supported suffix whose extraction succeeded; a .tar.gz or .tgz
\* archive is extracted as a tar archive, member by member, never written
\* as one decompressed file; and the loop of main() reaches every artifact,
\* the ones after a failure included, and counts the True results only.
C26_ExtractEveryArtifact ==
  /\ [](/\ run.pc = "extract" =>
             /\ run.a \in 1..Len(rawDir)
             /\ run.extracted = Cardinality({k \in Extractable : k < run.a})
        /\ run.pc \notin {"idle", "extract"} =>
             /\ run.a = Len(rawDir) + 1
             /\ run.extracted = Cardinality(Extractable))
  /\ [][run.pc = "extract" =>
          LET art == rawDir[run.a]
              r == ExtractIfArchive(art, procDir)
          IN /\ r.extracted = (SupportedSuffix(art.path) /\ art.good)
             /\ run'.a = run.a + 1
             /\ run'.extracted = run.extracted + (IF r.extracted THEN 1 ELSE 0)
             /\ ~SupportedSuffix(art.path) => procDir' = procDir
             /\ TarGzSuffix(art.path) =>
                  procDir' = WriteFiles(procDir, art.payload)]_vars

\* the extraction has gone past an archive that could not be read and has
\* then extracted a .tar.gz archive, whose member is in the processing
\* directory
C26_Witness ==
  /\ run.pc = "init_db"
  /\ \E k \in 1..Len(rawDir), j \in 1..Len(rawDir) :
       /\ k < j
       /\ SupportedSuffix(rawDir[k].path) /\ ~rawDir[k].good
       /\ TarGzSuffix(rawDir[j].path) /\ rawDir[j].good
       /\ \E f \in 1..Len(procDir) : procDir[f] = rawDir[j].payload[1]
  /\ run.extracted = 1

\* the judges list of the payload in the model's text, when the text is a
\* JSON object that has one
HasJudgeList(content) ==
  LET loaded == JsonLoads(content)
  IN loaded.ok /\ loaded.val.t = "obj" /\ Get(loaded.val, "judges").t = "list"

JudgeList(content) == Get(JsonLoads(content).val, "judges").v

\* the trimmed text of a field of an entry; an entry without the field, or
\* one that is no object, has none
Trimmed(entry, key) ==
  IF entry.t = "obj" THEN Strip(Str(Or(Get(entry, key), JStr(<<>>)))) ELSE <<>>

\* the positions of the entries whose opinion is non-empty after trimming
KeptPositions(items) ==
  SelectSeq([i \in 1..Len(items) |-> i],
            LAMBDA i : Trimmed(items[i], "opinion") # <<>>)

\* judges is the list C27 describes for the payload entries items
BuiltFrom(judges, items, summary) ==
  LET kept == KeptPositions(items)
  IN IF kept = <<>> THEN IsDefaultRoster(judges, summary)
     ELSE /\ Len(judges) = Len(kept)
          /\ \A n \in 1..Len(kept) :
               LET e == items[kept[n]]
               IN /\ judges[n].opinion = Trimmed(e, "opinion")
                  /\ \A key \in {"judge", "specialty"} :
                       /\ Trimmed(e, key) # <<>> => judges[n][key] = Trimmed(e, key)
                       /\ (Trimmed(e, key) = <<>> /\ kept[n] <= 3) =>
                            judges[n][key] = DEFAULT_PANEL[kept[n]][key]

\* C27: for every reply whose payload has a judges list, _parse_response
\* returns and its judges are the entries with a non-empty trimmed opinion, in
\* payload order, an empty judge or specialty filled from the default
\* roster member at the entry's payload position when that is one of the
\* first 3; with no entry kept, the 3 roster members with the panel summary
\* as opinion.
C27_JudgesFromPayload ==
  \A c \in AskCalls :
    (GotContent(c) /\ HasJudgeList(calls[c].reply.content)) =>
      LET parsed == ParseResponse(calls[c].reply.content)
      IN /\ parsed.err = "none"
         /\ BuiltFrom(parsed.judges, JudgeList(calls[c].reply.content),
                      parsed.panel_summary)
         /\ Returned(c) => calls[c].result.judges = parsed.judges

\* the conversation call c sent to the model: the snapshot and the prompt
Conversation(c) == heap[calls[c].list]

\* C30: for every assistant entry of a stored transcript, the conversation
\* its call sent to the model holds every entry stored before the user
\* prompt of that entry, overlapping calls on one session included.
C30_HistorySeen ==
  \A s \in DOMAIN sessions :
    \A k \in 2..Len(Transcript(s)) :
      Transcript(s)[k].role = "assistant" =>
        \A m \in 1..(k - 2) :
          \E n \in 1..Len(Conversation(Transcript(s)[k].turn)) :
            Conversation(Transcript(s)[k].turn)[n] = Transcript(s)[m]

\* C24: every call of sleep_backoff with an attempt number from 1 on
\* returns; its pre-jitter delay is min(cap, base^(attempt-1)), 1 for
\* attempt 1, at most that of the next attempt number and at most the cap;
\* the total delay is between the pre-jitter delay and the pre-jitter delay
\* plus the jitter maximum.
C24_CappedBackoff ==
  \A k \in 1..Len(naps) :
    LET nap == naps[k]
    IN /\ nap.err = "none"
       /\ nap.attempt <= MaxAttempt + 1 => nap.delay = Min(CAP, BASE ^ (nap.attempt - 1))
       /\ nap.attempt = 1 => nap.delay = 1
       /\ nap.delay <= CAP
       /\ \A j \in 1..Len(naps) :
            (naps[j].err = "none" /\ naps[j].attempt <= nap.attempt) =>
              naps[j].delay <= nap.delay
       /\ nap.total_delay >= 10 * nap.delay
       /\ nap.total_delay <= 10 * nap.delay + JITTER

\* C25: a call of retry_with_backoff with max_retries >= 1 invokes func at
\* most max_retries times and never after an invocation that returned; it
\* has waited once after each failed attempt but the last; it ends with the
\* result of the invocation that returned, or, after max_retries failed
\* attempts, with the exception the last attempt raised.
C25_RetryContract ==
  /\ retry.invoked <= retry.max_retries
  /\ retry.pc = "call" => retry.slept = retry.invoked
  /\ retry.pc \in {"sleep", "done"} => retry.slept = retry.invoked - 1
  /\ (retry.pc = "done" /\ retry.outcome = "returned") =>
       retry.value = <<"result", retry.invoked>>
  /\ (retry.pc = "done" /\ retry.outcome = "raised") =>
       /\ retry.invoked = retry.max_retries
       /\ retry.value = FuncError(retry.max_retries)

=============================================================================
